---- MODULE Spec2Model ----
(***************************************************************************)
(* caliper: a benchmark runner (benchmark.Run) and its matrix orchestrator *)
(* (matrix.Run, runSingleConfig) driving one Docker container per          *)
(* CPU/RAM configuration.                                                   *)
(*                                                                          *)
(* The specifications of the module share its variables:                    *)
(*   Spec        matrix.Run with its signal listener, one step per blocking *)
(*               call of runSingleConfig                                    *)
(*   SpecFront   the matrix subcommands custom, sweep-cpu, sweep-ram, all,  *)
(*               from the command line to the end of the run                *)
(*   SpecBench   benchmark.Run, one step per executeCommand call            *)
(*   SpecCmd     the single-benchmark command around benchmark.Run          *)
(*   SpecParse   ParseConfigs and ParseIntList on bounded strings           *)
(*   SpecGen     the generators of sweep and grid configurations            *)
(*   SpecStats   CalculateStatistics in float64 arithmetic                  *)
(*   SpecCreate  the resource limits of CreateContainerWithDebug in int64   *)
(*   SpecCopy    CopyDirFromContainer extracting a bounded tar archive       *)
(*                                                                          *)
(* Inside Spec and SpecBench durations are whole seconds and the statistics *)
(* are exact normalised fractions [num, den]; SpecStats computes them as    *)
(* the code does, in binary64 with one rounding per operation.              *)
(***************************************************************************)
EXTENDS Integers, Sequences, FiniteSets, TLC

\* ------------------------------------------------------------- bounds
MaxRuns == 3
MaxDuration == 2
MaxConfigs == 2
MaxSignals == 2
MatrixRuns == 2
MaxLen == 4
MaxItemLen == 3
MaxList == 3
MaxVal == 2

\* an optional value (a nil pointer, a missing file) is <<>>, a present one <<x>>
Nil == <<>>
Some(x) == <<x>>

\* the state of runSingleConfig's local result outside runSingleConfig
NoResult == "none"

\* ---------------------------------------------------------- fractions
RECURSIVE GCD(_, _)
GCD(a, b) == IF b = 0 THEN a ELSE GCD(b, a % b)

Abs(x) == IF x < 0 THEN -x ELSE x

\* n/d for d > 0, in lowest terms, so that equal values are equal records
Rat(n, d) ==
    LET g == GCD(Abs(n), d)
    IN  [num |-> n \div g, den |-> d \div g]

Zero == [num |-> 0, den |-> 1]
FromInt(n) == [num |-> n, den |-> 1]
RatLT(a, b) == a.num * b.den < b.num * a.den

RECURSIVE ISqrt(_, _)
ISqrt(n, r) == IF (r + 1) * (r + 1) > n THEN r ELSE ISqrt(n, r + 1)

\* math.Sqrt of a fraction: the exact fraction when it has one, otherwise the
\* root kept symbolically (sqrt(0) = 0, so an all-equal sample gives Zero)
Sqrt(q) ==
    LET rn == ISqrt(q.num, 0)
        rd == ISqrt(q.den, 0)
    IN  IF rn * rn = q.num /\ rd * rd = q.den
        THEN Rat(rn, rd)
        ELSE [sqrtOf |-> q]

\* ------------------------------------- benchmark: CalculateStatistics
RECURSIVE Insert(_, _)
Insert(x, s) ==
    IF s = <<>> THEN <<x>>
    ELSE IF x <= Head(s) THEN <<x>> \o s
    ELSE <<Head(s)>> \o Insert(x, Tail(s))

\* sort.Float64s
RECURSIVE SortAsc(_)
SortAsc(s) == IF s = <<>> THEN <<>> ELSE Insert(Head(s), SortAsc(Tail(s)))

RECURSIVE SumSeq(_)
SumSeq(s) == IF s = <<>> THEN 0 ELSE Head(s) + SumSeq(Tail(s))

RECURSIVE SumSq(_)
SumSq(s) == IF s = <<>> THEN 0 ELSE Head(s) * Head(s) + SumSq(Tail(s))

\* percentile(sorted, p): linear interpolation between closest ranks.
\* rank = p/100 * (n-1); lowerIndex, upperIndex are 0-based in the source.
percentile(sorted, p) ==
    IF Len(sorted) = 0 THEN Zero
    ELSE IF Len(sorted) = 1 THEN FromInt(sorted[1])
    ELSE LET r100 == p * (Len(sorted) - 1)
             lowerIndex == r100 \div 100
             rem == r100 % 100
             upperIndex == IF rem = 0 THEN lowerIndex ELSE lowerIndex + 1
         IN  IF lowerIndex = upperIndex
             THEN FromInt(sorted[lowerIndex + 1])
             ELSE Rat(sorted[lowerIndex + 1] * (100 - rem)
                        + sorted[upperIndex + 1] * rem, 100)

\* Statistics{}: the zero value of the struct
ZeroStats ==
    [N |-> 0, Mean |-> Zero, Median |-> Zero, StdDev |-> Zero,
     Min |-> Zero, Max |-> Zero, P90 |-> Zero, P95 |-> Zero]

\* mean = sum/n; variance = sum((d-mean)^2)/n = (n*sumsq - sum^2)/n^2
CalculateStatistics(durations) ==
    IF Len(durations) = 0 THEN ZeroStats
    ELSE LET n == Len(durations)
             sorted == SortAsc(durations)
             sum == SumSeq(durations)
             variance == Rat(n * SumSq(durations) - sum * sum, n * n)
         IN  [N |-> n,
              Mean |-> Rat(sum, n),
              Median |-> percentile(sorted, 50),
              StdDev |-> Sqrt(variance),
              Min |-> FromInt(sorted[1]),
              Max |-> FromInt(sorted[n]),
              P90 |-> percentile(sorted, 90),
              P95 |-> percentile(sorted, 95)]

\* --------------------------------------------------- benchmark: Run
Durations == 1..MaxDuration

\* what one `bash -c command` can do: exit status zero or not, after d seconds
CmdOutcomes == [ok : BOOLEAN, d : Durations]

\* executeCommand(runNumber, command, debug)
executeCommand(runNumber, o) ==
    [RunNumber |-> runNumber, Duration |-> o.d, Success |-> o.ok,
     Error |-> IF o.ok THEN "" ELSE "exit status 1"]

\* a collection loop without the `if run.Success` test
AllDurations(runs) == [k \in 1..Len(runs) |-> runs[k].Duration]

\* the loop over result.Runs that collects the successful durations
RECURSIVE SuccessDurations(_)
SuccessDurations(runs) ==
    IF runs = <<>> THEN <<>>
    ELSE IF Head(runs).Success
         THEN <<Head(runs).Duration>> \o SuccessDurations(Tail(runs))
         ELSE SuccessDurations(Tail(runs))

\* a denominator that counts every execution, the warm-up included
RateDenominatorWithWarmup(config, runs, warmup) == config.Runs + Len(warmup)

\* the denominator of SuccessRate
RateDenominator(config, runs, warmup) == config.Runs

\* (float64(successCount) / float64(config.Runs)) * 100.0
SuccessRateOf(config, runs, warmup) ==
    Rat(100 * Len(SuccessDurations(runs)), RateDenominator(config, runs, warmup))

\* the tail of Run: statistics over the successful runs only
StatsOf(runs) ==
    LET durations == SuccessDurations(runs)
    IN  IF Len(durations) > 0 THEN CalculateStatistics(durations) ELSE ZeroStats

\* the *Result that Run returns
Summarize(config, warmup, runs) ==
    [Config |-> config, WarmupRun |-> warmup, Runs |-> runs,
     Stats |-> StatsOf(runs),
     SuccessRate |-> SuccessRateOf(config, runs, warmup)]

\* ---------------------------------------------------------- variables
VARIABLES
    \* benchmark.Run
    bconfig,      \* Config: [Runs, SkipWarmup]
    bpc,          \* "idle" | "validate" | "warmup" | "loop" | "returned" | "exited"
    bi,           \* the loop variable i of the measured-run loop
    bWarmup,      \* result.WarmupRun (Nil or a RunResult)
    bRuns,        \* result.Runs
    bExecs,       \* run numbers handed to executeCommand so far, in order
    bRet,         \* what Run returned: kind "none" (not yet), "err" or "result"
    \* matrix.Run, runSingleConfig and the command around them
    configs,      \* config.Configs
    pc,           \* position in Run / runSingleConfig
    i,            \* 1-based index of the configuration being run
    result,       \* runSingleConfig's local ConfigResult
    Results,      \* MatrixResult.Results
    runRet,       \* "none" | "result" | "error": what matrix.Run returned
    runErr,       \* the error matrix.Run returned ("" when none)
    exitCode,     \* process exit code, -1 while the process runs
    cancelled,    \* ctx.Done() is closed
    sigChan,      \* signals buffered in sigChan (capacity 1)
    listener,     \* "waiting" | "done": the goroutine reading sigChan
    signals,      \* interrupts delivered to the process so far
    containers,   \* index -> "none" | "created" | "running" | "stopped" | "removed"
    handle,       \* index -> CreateContainerWithDebug returned a *Container
    stopCalls,    \* index -> number of Container.Stop calls on that container
    stopCtxDone,  \* index -> Stop was called with ctx already cancelled
    steps,        \* history: [cfg, step] of every step attempted
    lateStarts,   \* history: indexes whose runSingleConfig began with ctx cancelled
    workspace,    \* host workspace dirs: DirName -> files below /workspace
    output,       \* host output dirs: DirName -> result file copied out (or Nil)
    benchExit,    \* exit code of the benchmark exec of the current configuration
    nested,       \* index -> RunResults of the benchmark inside the container
    \* a command line, or one call of a pure function
    arg,          \* the flags of the command, or the arguments of the call
    ret           \* what the call returned: kind "none" until it has returned

benchVars == <<bconfig, bpc, bi, bWarmup, bRuns, bExecs, bRet>>
callVars == <<arg, ret>>
matrixVars == <<configs, pc, i, result, Results, runRet, runErr, exitCode, cancelled,
                sigChan, listener, signals, containers, handle, stopCalls,
                stopCtxDone, steps, lateStarts, workspace, output, benchExit,
                nested>>
vars == <<bconfig, bpc, bi, bWarmup, bRuns, bExecs, bRet,
          configs, pc, i, result, Results, runRet, runErr, exitCode, cancelled,
          sigChan, listener, signals, containers, handle, stopCalls,
          stopCtxDone, steps, lateStarts, workspace, output, benchExit, nested,
          arg, ret>>

\* -------------------------------------------- benchmark.Run, stepwise
\* CLI validation (runs > 0) precedes every call of Run
BenchConfigs == [Runs : 1..MaxRuns, SkipWarmup : BOOLEAN]

BenchIdle ==
    /\ bconfig = [Runs |-> 1, SkipWarmup |-> TRUE]
    /\ bpc = "idle"
    /\ bi = 0
    /\ bWarmup = Nil
    /\ bRuns = <<>>
    /\ bExecs = <<>>
    /\ bRet = [kind |-> "none"]

BenchStart ==
    /\ bconfig \in BenchConfigs
    /\ bpc = "warmup"
    /\ bi = 0
    /\ bWarmup = Nil
    /\ bRuns = <<>>
    /\ bExecs = <<>>
    /\ bRet = [kind |-> "none"]

\* a Run that goes on to the measured runs whatever the warm-up did
WarmupNeverAborts(w) == FALSE

\* whether a failed warm-up ends Run
WarmupAborts(w) == ~w.Success

\* if !config.SkipWarmup { warmupResult := executeCommand(0, ...) ... }
Warmup ==
    /\ bpc = "warmup"
    /\ ~bconfig.SkipWarmup
    /\ \E o \in CmdOutcomes :
         LET w == executeCommand(0, o)
         IN  /\ bWarmup' = Some(w)
             /\ bExecs' = Append(bExecs, 0)
             /\ IF WarmupAborts(w)
                THEN /\ bpc' = "returned"
                     /\ bRet' = [kind |-> "err", err |-> "warm-up run failed"]
                     /\ bi' = bi
                ELSE /\ bpc' = "loop"
                     /\ bi' = 1
                     /\ bRet' = bRet
    /\ UNCHANGED <<bconfig, bRuns>>
    /\ UNCHANGED <<matrixVars, callVars>>

NoWarmup ==
    /\ bpc = "warmup"
    /\ bconfig.SkipWarmup
    /\ bpc' = "loop"
    /\ bi' = 1
    /\ UNCHANGED <<bconfig, bWarmup, bRuns, bExecs, bRet>>
    /\ UNCHANGED <<matrixVars, callVars>>

\* a loop that breaks at the first failed run
NextRunStopOnFailure(k, r) == IF r.Success THEN k + 1 ELSE bconfig.Runs + 1

\* where the loop goes after run i ended as r
NextRun(k, r) == k + 1

\* one iteration of: for i := 1; i <= config.Runs; i++
MeasuredRun ==
    /\ bpc = "loop"
    /\ bi <= bconfig.Runs
    /\ \E o \in CmdOutcomes :
         LET r == executeCommand(bi, o)
         IN  /\ bRuns' = Append(bRuns, r)
             /\ bExecs' = Append(bExecs, bi)
             /\ bi' = NextRun(bi, r)
    /\ UNCHANGED <<bconfig, bpc, bWarmup, bRet>>
    /\ UNCHANGED <<matrixVars, callVars>>

\* loop exit: statistics, success rate, return result, nil
Finish ==
    /\ bpc = "loop"
    /\ bi > bconfig.Runs
    /\ bpc' = "returned"
    /\ bRet' = [kind |-> "result", result |-> Summarize(bconfig, bWarmup, bRuns)]
    /\ UNCHANGED <<bconfig, bi, bWarmup, bRuns, bExecs>>
    /\ UNCHANGED <<matrixVars, callVars>>


\* ------------------------------------------------- matrix: data model
\* the k-th distinct ResourceConfig of an input list (ParseConfigs yields
\* positive pairs)
PoolConfig(k) == [CPUs |-> k, Memory |-> 4 * k]

ConfigPool == {PoolConfig(k) : k \in 1..MaxConfigs}

RECURSIVE SeqsUpTo(_, _)
SeqsUpTo(S, n) ==
    IF n = 0 THEN {<<>>}
    ELSE LET shorter == SeqsUpTo(S, n - 1)
         IN  shorter \cup {Append(q, x) : q \in {t \in shorter : Len(t) = n - 1}, x \in S}

\* ResourceConfig.DirName: fmt.Sprintf("%dcpu_%dgb", r.CPUs, r.Memory)
DirName(r) == <<r.CPUs, "cpu_", r.Memory, "gb">>

DirNames == {DirName(r) : r \in ConfigPool}

\* the input lists, one per pattern of repeated entries: the orchestrator reads
\* a ResourceConfig only to name directories and to pass it on, so a list is
\* told from another only by which of its entries are equal to which
InputLists ==
    {q \in SeqsUpTo(ConfigPool, MaxConfigs) \ {<<>>} :
        \A k \in 1..Len(q) :
            \/ \E j \in 1..(k - 1) : q[j] = q[k]
            \/ q[k] = PoolConfig(Cardinality({q[j] : j \in 1..(k - 1)}) + 1)}

\* matrix.Config as the command builds it: --runs and --no-warmup
mconfig == [Runs |-> MatrixRuns, SkipWarmup |-> FALSE]

\* ConfigResult{Config: resourceCfg, TotalRuns: config.Runs}
NewConfigResult(resourceCfg) ==
    [Config |-> resourceCfg, Success |-> FALSE, Error |-> "",
     TotalRuns |-> mconfig.Runs, SuccessRuns |-> 0, SuccessRate |-> Zero,
     Mean |-> Zero, Median |-> Zero, StdDev |-> Zero, Min |-> Zero,
     Max |-> Zero, P90 |-> Zero, P95 |-> Zero]

\* the "summary" and "statistics" objects SaveJSON writes
SaveJSON(res) ==
    [totalRuns |-> res.Config.Runs, successful |-> res.Stats.N,
     successRate |-> res.SuccessRate, statistics |-> res.Stats]

\* parseResultsJSON: the fields copied from the file into the ConfigResult
parseResultsJSON(json, r) ==
    [r EXCEPT !.TotalRuns = json.totalRuns,
              !.SuccessRuns = json.successful,
              !.SuccessRate = json.successRate,
              !.Mean = json.statistics.Mean,
              !.Median = json.statistics.Median,
              !.StdDev = json.statistics.StdDev,
              !.Min = json.statistics.Min,
              !.Max = json.statistics.Max,
              !.P90 = json.statistics.P90,
              !.P95 = json.statistics.P95]

\* a command that exits 0 as soon as one measured run succeeded
BenchExitCodeAnySuccess(res) == IF res.Stats.N = 0 THEN 1 ELSE 0

\* exit code of the single-benchmark command after Run returned a result
BenchExitCode(res) == IF RatLT(res.SuccessRate, FromInt(100)) THEN 1 ELSE 0

\* a Docker API call made with ctx: a cancelled context fails the request
\* before it is sent; otherwise the daemon may serve or refuse it
ApiOutcomes(ctxDone) == IF ctxDone THEN {"err"} ELSE {"ok", "err"}

\* Container.Exec: error, or the exit code of the command
ExecOutcomes(ctxDone) ==
    {[err |-> TRUE, code |-> 0]} \cup
    (IF ctxDone THEN {} ELSE {[err |-> FALSE, code |-> c] : c \in {0, 1}})

\* os.MkdirAll, os.MkdirTemp, go build: no context involved
LocalOutcomes == {"ok", "err"}

NoDir == [exists |-> FALSE, repo |-> FALSE, caliper |-> FALSE, results |-> Nil]

\* -------------------------------------------------------- matrix: Init
MatrixIdle ==
    /\ configs = <<>>
    /\ pc = "idle"
    /\ i = 0
    /\ result = NoResult
    /\ Results = <<>>
    /\ runRet = "none"
    /\ runErr = ""
    /\ exitCode = -1
    /\ cancelled = FALSE
    /\ sigChan = 0
    /\ listener = "done"
    /\ signals = 0
    /\ containers = [k \in 1..MaxConfigs |-> "none"]
    /\ handle = [k \in 1..MaxConfigs |-> FALSE]
    /\ stopCalls = [k \in 1..MaxConfigs |-> 0]
    /\ stopCtxDone = [k \in 1..MaxConfigs |-> FALSE]
    /\ steps = {}
    /\ lateStarts = {}
    /\ workspace = [d \in DirNames |-> NoDir]
    /\ output = [d \in DirNames |-> Nil]
    /\ benchExit = 0
    /\ nested = [k \in 1..MaxConfigs |-> <<>>]

\* runMatrixBenchmark after ParseConfigs succeeded: context and listener set up
MatrixStart ==
    /\ configs \in InputLists
    /\ pc = "build"
    /\ i = 0
    /\ result = NoResult
    /\ Results = <<>>
    /\ runRet = "none"
    /\ runErr = ""
    /\ exitCode = -1
    /\ cancelled = FALSE
    /\ sigChan = 0
    /\ listener = "waiting"
    /\ signals = 0
    /\ containers = [k \in 1..MaxConfigs |-> "none"]
    /\ handle = [k \in 1..MaxConfigs |-> FALSE]
    /\ stopCalls = [k \in 1..MaxConfigs |-> 0]
    /\ stopCtxDone = [k \in 1..MaxConfigs |-> FALSE]
    /\ steps = {}
    /\ lateStarts = {}
    /\ workspace = [d \in DirNames |-> NoDir]
    /\ output = [d \in DirNames |-> Nil]
    /\ benchExit = 0
    /\ nested = [k \in 1..MaxConfigs |-> <<>>]


\* no command line and no call under study
NoArg == [kind |-> "none"]
NoRet == [kind |-> "none"]

CallIdle ==
    /\ arg = NoArg
    /\ ret = NoRet

\* ------------------------------------------- the interrupt and listener
\* SIGINT/SIGTERM reaches the process: signal.Notify does a non-blocking send
\* into sigChan (capacity 1), dropping the signal when the buffer is full
\* a process that handles only its first signal: the next one kills it
KilledBySecondSignal(position, count) == IF count >= 1 THEN "done" ELSE position

\* where the process is once the count + 1st signal was delivered: Notify
\* stays registered (there is no signal.Stop), so it goes on where it was
Delivered(position, count) == position

Interrupt ==
    /\ pc \notin {"idle", "done"}
    /\ signals < MaxSignals
    /\ signals' = signals + 1
    /\ sigChan' = IF sigChan < 1 THEN sigChan + 1 ELSE sigChan
    /\ pc' = Delivered(pc, signals)
    /\ UNCHANGED <<configs, i, result, Results, runRet, runErr, exitCode, cancelled,
                   listener, containers, handle, stopCalls, stopCtxDone, steps,
                   lateStarts, workspace, output, benchExit, nested>>
    /\ UNCHANGED <<benchVars, callVars>>

\* go func() { <-sigChan; cancel() }(): reads one signal, cancels, ends
Listener ==
    /\ pc \notin {"idle", "done"}
    /\ listener = "waiting"
    /\ sigChan > 0
    /\ sigChan' = sigChan - 1
    /\ cancelled' = TRUE
    /\ listener' = "done"
    /\ UNCHANGED <<configs, pc, i, result, Results, runRet, runErr, exitCode, signals,
                   containers, handle, stopCalls, stopCtxDone, steps,
                   lateStarts, workspace, output, benchExit, nested>>
    /\ UNCHANGED <<benchVars, callVars>>

\* --------------------------------------------------- matrix.Run prelude
\* the variables only the interrupt and the listener change
sigVars == <<cancelled, sigChan, listener, signals>>
\* the variables runSingleConfig's steps leave alone unless they say otherwise
runVars == <<configs, i, Results, runRet, runErr, exitCode, lateStarts>>
dockerVars == <<containers, handle, stopCalls, stopCtxDone>>
fsVars == <<workspace, output>>

\* matrix.BuildStaticBinary in runMatrixBenchmark: on failure the command
\* returns its error and matrix.Run is never called
BuildBinary ==
    /\ pc = "build"
    /\ \E o \in LocalOutcomes :
         pc' = IF o = "err" THEN "exit" ELSE "client"
    /\ UNCHANGED <<configs, i, result, Results, runRet, runErr, exitCode, steps,
                   lateStarts, benchExit, nested>>
    /\ UNCHANGED <<sigVars, dockerVars, fsVars>>
    /\ UNCHANGED <<benchVars, callVars>>

\* EnsureImage: ImageInspectWithRaw finds the image, or else ImagePull runs
EnsureImage(inspect, pull) == IF inspect = "ok" THEN "ok" ELSE pull

\* what a step of Run before the loop can do
PreludeOutcomes(step, ctxDone) ==
    IF step = "image"
    THEN {EnsureImage(inspect, pull) : inspect \in ApiOutcomes(ctxDone),
                                       pull \in ApiOutcomes(ctxDone)}
    ELSE LocalOutcomes

\* the error Run returns when a step before the loop fails
RunError(step) ==
    CASE step = "client" -> "failed to create Docker client"
      [] step = "image" -> "failed to ensure Docker image"
      [] step = "outdir" -> "failed to create output directory"
      [] step = "tmpdir" -> "failed to create temp directory"

\* a Run that reports the failed step and carries on with the next one
PreludeFailureContinues(step, next) == next

\* where a failed step before the loop leads: return nil, err
PreludeFailure(step, next) == "exit"

\* Run up to the loop: NewDockerClient, EnsureImage(ctx),
\* os.MkdirAll(config.OutputDir), os.MkdirTemp
Prelude ==
    /\ pc \in {"client", "image", "outdir", "tmpdir"}
    /\ \E o \in PreludeOutcomes(pc, cancelled) :
         LET next == CASE pc = "client" -> "image"
                       [] pc = "image" -> "outdir"
                       [] pc = "outdir" -> "tmpdir"
                       [] pc = "tmpdir" -> "loop"
         IN  /\ IF o = "err"
                THEN /\ runRet' = "error"
                     /\ runErr' = RunError(pc)
                     /\ pc' = PreludeFailure(pc, next)
                ELSE /\ pc' = next
                     /\ UNCHANGED <<runRet, runErr>>
             /\ i' = IF pc' = "loop" THEN 1 ELSE i
    /\ UNCHANGED <<configs, result, Results, exitCode, steps, lateStarts, benchExit,
                   nested>>
    /\ UNCHANGED <<sigVars, dockerVars, fsVars>>
    /\ UNCHANGED <<benchVars, callVars>>

\* for i, resourceCfg := range config.Configs: enter runSingleConfig, or
\* leave the loop and return result, nil
Loop ==
    /\ pc = "loop"
    /\ IF i <= Len(configs)
       THEN /\ result' = NewConfigResult(configs[i])
            /\ pc' = "workspace"
            /\ runRet' = runRet
            /\ lateStarts' = IF cancelled THEN lateStarts \cup {i} ELSE lateStarts
       ELSE /\ runRet' = "result"
            /\ pc' = "exit"
            /\ UNCHANGED <<result, lateStarts>>
    /\ UNCHANGED <<configs, i, Results, runErr, exitCode, steps, benchExit, nested>>
    /\ UNCHANGED <<sigVars, dockerVars, fsVars>>
    /\ UNCHANGED <<benchVars, callVars>>

\* --------------------------------------------------- runSingleConfig
\* the history of the steps: configuration i attempted step name, and the
\* call returned without an error (ok) or with one
Attempt(name, ok) ==
    steps' = steps \cup {[cfg |-> i, step |-> name, ok |-> ok]}

\* a command run through Exec did what it was run for: no error, exit code 0
Completed(o) == ~o.err /\ o.code = 0

Attempted(k, name) == \E s \in steps : s.cfg = k /\ s.step = name

\* a runSingleConfig that stops the container only at its end, without defer
AfterReturnNoDefer(hasHandle) == "append"

\* where an early `return result` goes: the deferred Stop runs first when the
\* defer was registered, i.e. when a container handle exists
AfterReturn(hasHandle) == IF hasHandle THEN "stop" ELSE "append"

\* result.Error = ...; return result
Fail(msg) ==
    /\ result' = [result EXCEPT !.Error = msg]
    /\ pc' = AfterReturn(handle[i])

\* os.MkdirAll(workspaceDir)
MkWorkspace ==
    /\ pc = "workspace"
    /\ \E o \in LocalOutcomes :
         /\ Attempt("workspace", o = "ok")
         /\ IF o = "err"
            THEN /\ Fail("failed to create workspace directory")
                 /\ workspace' = workspace
            ELSE /\ workspace' = [workspace EXCEPT ![DirName(configs[i])].exists = TRUE]
                 /\ pc' = "outputdir"
                 /\ result' = result
    /\ UNCHANGED <<runVars, sigVars, dockerVars, output, benchExit, nested>>
    /\ UNCHANGED <<benchVars, callVars>>

\* os.MkdirAll(outputDir)
MkOutputDir ==
    /\ pc = "outputdir"
    /\ \E o \in LocalOutcomes :
         /\ Attempt("outputdir", o = "ok")
         /\ IF o = "err"
            THEN Fail("failed to create output directory")
            ELSE /\ pc' = "create"
                 /\ result' = result
    /\ UNCHANGED <<runVars, sigVars, dockerVars, fsVars, benchExit, nested>>
    /\ UNCHANGED <<benchVars, callVars>>

\* what CreateContainerWithDebug can do: ContainerCreate fails; ContainerStart
\* fails and the forced ContainerRemove succeeds or fails; or both succeed
CreateOutcomes(ctxDone) ==
    IF ctxDone THEN {"createErr"}
    ELSE {"createErr", "startErrRemoved", "startErrLeft", "ok"}

\* dockerClient.CreateContainerWithDebug(ctx, ...)
CreateContainer ==
    /\ pc = "create"
    /\ \E o \in CreateOutcomes(cancelled) :
         /\ containers' = [containers EXCEPT ![i] =
                CASE o = "createErr" -> "none"
                  [] o = "startErrRemoved" -> "removed"
                  [] o = "startErrLeft" -> "created"
                  [] o = "ok" -> "running"]
         /\ handle' = [handle EXCEPT ![i] = (o = "ok")]
         /\ Attempt("create", o = "ok")
         /\ IF o = "ok"
            THEN /\ pc' = "clone"
                 /\ result' = result
            ELSE /\ result' = [result EXCEPT !.Error = "failed to create container"]
                 /\ pc' = AfterReturn(FALSE)
    /\ UNCHANGED <<runVars, sigVars, stopCalls, stopCtxDone, fsVars, benchExit, nested>>
    /\ UNCHANGED <<benchVars, callVars>>


\* git clone --depth 1 <repo> /workspace/repo, through ExecShell(ctx, ...):
\* git refuses a destination that already exists and is not empty
CloneOutcomes(ctxDone, dir) ==
    IF dir.repo
    THEN {o \in ExecOutcomes(ctxDone) : o.err \/ o.code # 0}
    ELSE ExecOutcomes(ctxDone)

Clone ==
    /\ pc = "clone"
    /\ \E o \in CloneOutcomes(cancelled, workspace[DirName(configs[i])]) :
         /\ Attempt("clone", Completed(o))
         /\ IF o.err
            THEN /\ Fail("failed to execute git clone")
                 /\ workspace' = workspace
            ELSE IF o.code # 0
            THEN /\ Fail("git clone failed")
                 /\ workspace' = workspace
            ELSE /\ workspace' = [workspace EXCEPT ![DirName(configs[i])].repo = TRUE]
                 /\ pc' = "copybin"
                 /\ result' = result
    /\ UNCHANGED <<runVars, sigVars, dockerVars, output, benchExit, nested>>
    /\ UNCHANGED <<benchVars, callVars>>

\* container.CopyFileToContainerWithDebug(ctx, binaryPath, "/workspace/caliper")
CopyBinary ==
    /\ pc = "copybin"
    /\ \E o \in ApiOutcomes(cancelled) :
         /\ Attempt("copybin", o = "ok")
         /\ IF o = "err"
            THEN /\ Fail("failed to copy binary to container")
                 /\ workspace' = workspace
            ELSE /\ workspace' = [workspace EXCEPT ![DirName(configs[i])].caliper = TRUE]
                 /\ pc' = "chmod"
                 /\ result' = result
    /\ UNCHANGED <<runVars, sigVars, dockerVars, output, benchExit, nested>>
    /\ UNCHANGED <<benchVars, callVars>>

\* a runSingleConfig that looks only at the error of an Exec, not at the
\* exit code of the command
ExecErrored(o) == o.err

\* err != nil || chmodResult.ExitCode != 0, and the same for mkdir
ExecFailed(o) == o.err \/ o.code # 0

\* chmod +x /workspace/caliper
Chmod ==
    /\ pc = "chmod"
    /\ \E o \in ExecOutcomes(cancelled) :
         /\ Attempt("chmod", Completed(o))
         /\ IF ExecFailed(o)
            THEN Fail("failed to make binary executable")
            ELSE /\ pc' = "mkresults"
                 /\ result' = result
    /\ UNCHANGED <<runVars, sigVars, dockerVars, fsVars, benchExit, nested>>
    /\ UNCHANGED <<benchVars, callVars>>

\* mkdir -p /workspace/results
MkResultsDir ==
    /\ pc = "mkresults"
    /\ \E o \in ExecOutcomes(cancelled) :
         /\ Attempt("mkresults", Completed(o))
         /\ IF ExecFailed(o)
            THEN Fail("failed to create results directory")
            ELSE /\ pc' = "bench"
                 /\ result' = result
    /\ UNCHANGED <<runVars, sigVars, dockerVars, fsVars, benchExit, nested>>
    /\ UNCHANGED <<benchVars, callVars>>

\* the RunResults of benchmark.Run's loop for a given list of command outcomes
MeasuredRuns(os) == [k \in 1..Len(os) |-> executeCommand(k, os[k])]

\* the command outcomes told apart inside a container: a run succeeds or
\* fails; nothing the orchestrator does depends on how long it took
NestedCmdOutcomes == {o \in CmdOutcomes : o.d = 1}

\* what /workspace/caliper does inside the container: the warm-up fails and
\* it exits 1 without a result file, or it runs config.Runs measured runs,
\* saves the JSON (or only warns when saving fails) and exits on SuccessRate
NestedOutcomes ==
    {[warmupOK |-> FALSE, os |-> <<>>, saved |-> FALSE]} \cup
    [warmupOK : {TRUE}, os : [1..mconfig.Runs -> NestedCmdOutcomes], saved : BOOLEAN]

NestedResult(n) ==
    Summarize(mconfig, Some(executeCommand(0, [ok |-> TRUE, d |-> 1])), MeasuredRuns(n.os))

NestedExitCode(n) == IF n.warmupOK THEN BenchExitCode(NestedResult(n)) ELSE 1

\* container.ExecShellStreaming(ctx, benchmarkCmd, "/workspace/repo", debug)
ExecBenchmark ==
    /\ pc = "bench"
    /\ \/ /\ Fail("failed to execute benchmark")
          /\ Attempt("bench", FALSE)
          /\ UNCHANGED <<workspace, benchExit, nested>>
       \/ /\ ~cancelled
          /\ \E n \in NestedOutcomes :
               /\ nested' = [nested EXCEPT ![i] = MeasuredRuns(n.os)]
               /\ benchExit' = NestedExitCode(n)
               /\ workspace' = [workspace EXCEPT ![DirName(configs[i])].results =
                                   IF n.saved THEN Some(SaveJSON(NestedResult(n))) ELSE @]
          /\ pc' = "copyresults"
          /\ result' = result
          /\ Attempt("bench", TRUE)
    /\ UNCHANGED <<runVars, sigVars, dockerVars, output>>
    /\ UNCHANGED <<benchVars, callVars>>

\* container.CopyDirFromContainer(ctx, "/workspace/results", outputDir)
CopyResults ==
    /\ pc = "copyresults"
    /\ \E o \in ApiOutcomes(cancelled) :
         /\ Attempt("copyresults", o = "ok")
         /\ IF o = "err"
            THEN /\ Fail("failed to copy results from container")
                 /\ output' = output
            ELSE /\ output' = [output EXCEPT ![DirName(configs[i])] =
                                  IF workspace[DirName(configs[i])].results = Nil
                                  THEN @
                                  ELSE workspace[DirName(configs[i])].results]
                 /\ pc' = "parse"
                 /\ result' = result
    /\ UNCHANGED <<runVars, sigVars, dockerVars, workspace, benchExit, nested>>
    /\ UNCHANGED <<benchVars, callVars>>

\* a runSingleConfig that returns after a failed parse without an Error text
NoErrorText(code) == ""

\* fmt.Sprintf("benchmark failed (exit code %d)", benchResult.ExitCode)
ExitCodeError(code) ==
    IF code = 0 THEN "benchmark failed (exit code 0)"
    ELSE "benchmark failed (exit code 1)"

\* a runSingleConfig that fails the configuration on every parse failure
ParseFailureAlwaysFatal(code) == TRUE

\* whether a parse failure fails the configuration: benchResult.ExitCode != 0
ParseFailureFatal(code) == code # 0

\* a runSingleConfig that also looks at the exit code after a parse that worked
SuccessIfExitZero(code) == code = 0

\* result.Success = true: after a parse that worked the exit code is not read
SuccessAfterParse(code) == TRUE

\* parseResultsJSON(jsonPath, &result) and the end of runSingleConfig
ParseResults ==
    /\ pc = "parse"
    /\ LET json == output[DirName(configs[i])]
       IN  /\ Attempt("parse", json # Nil)
           /\ IF json = Nil
              THEN IF ParseFailureFatal(benchExit)
                   THEN result' = [result EXCEPT !.Error = ExitCodeError(benchExit)]
                   ELSE result' = [result EXCEPT !.Success = TRUE]
              ELSE LET parsed == parseResultsJSON(json[1], result)
                   IN  result' = [parsed EXCEPT !.Success = SuccessAfterParse(benchExit)]
    /\ pc' = AfterReturn(handle[i])
    /\ UNCHANGED <<runVars, sigVars, dockerVars, fsVars, benchExit, nested>>
    /\ UNCHANGED <<benchVars, callVars>>

\* a deferred Stop whose error is written into the result that is returned
StopErrorRecorded(r, removed) ==
    IF removed THEN r
    ELSE [r EXCEPT !.Success = FALSE, !.Error = "failed to stop container"]

\* the result runSingleConfig returns once the deferred Stop ran: the defer
\* only prints "Warning: failed to stop container"
AfterStop(r, removed) == r

\* the deferred container.Stop(ctx): ContainerStop (error ignored), then
\* ContainerRemove with Force (error returned, printed as a warning)
Stop ==
    /\ pc = "stop"
    /\ \E st \in ApiOutcomes(cancelled), rm \in ApiOutcomes(cancelled) :
         /\ containers' = [containers EXCEPT ![i] =
                IF rm = "ok" THEN "removed"
                ELSE IF st = "ok" THEN "stopped"
                ELSE @]
         /\ Attempt("stop", rm = "ok")
         /\ result' = AfterStop(result, rm = "ok")
    /\ stopCalls' = [stopCalls EXCEPT ![i] = @ + 1]
    /\ stopCtxDone' = [stopCtxDone EXCEPT ![i] = cancelled]
    /\ pc' = "append"
    /\ UNCHANGED <<runVars, sigVars, handle, fsVars, benchExit, nested>>
    /\ UNCHANGED <<benchVars, callVars>>

\* a Run that keeps only the configurations that succeeded
AppendedIfSuccess(rs, r) == IF r.Success THEN Append(rs, r) ELSE rs

\* result.Results = append(result.Results, configResult)
Appended(rs, r) == Append(rs, r)

\* a Run that gives up the matrix at the first failed configuration
AfterConfigAbort(k, r) == IF r.Success THEN k + 1 ELSE Len(configs) + 1

\* the loop's next index after configuration k ended as r
AfterConfig(k, r) == k + 1

\* runSingleConfig has returned: Run appends and goes around the loop
AppendResult ==
    /\ pc = "append"
    /\ Results' = Appended(Results, result)
    /\ i' = AfterConfig(i, result)
    /\ pc' = "loop"
    /\ UNCHANGED <<configs, result, runRet, runErr, exitCode, steps, lateStarts,
                   benchExit, nested>>
    /\ UNCHANGED <<sigVars, dockerVars, fsVars>>
    /\ UNCHANGED <<benchVars, callVars>>

\* the command's exit code once Run returned a result
MatrixExitCode(rs) == IF \E k \in 1..Len(rs) : ~rs[k].Success THEN 1 ELSE 0

\* the end of runMatrixBenchmark: a failed build or an error of matrix.Run
\* exits 1; otherwise os.Exit(1) if any r.Success is false, else exit 0
Exit ==
    /\ pc = "exit"
    /\ exitCode' = IF runRet = "result" THEN MatrixExitCode(Results) ELSE 1
    /\ pc' = "done"
    /\ UNCHANGED <<configs, i, result, Results, runRet, runErr, steps, lateStarts,
                   benchExit, nested>>
    /\ UNCHANGED <<sigVars, dockerVars, fsVars>>
    /\ UNCHANGED <<benchVars, callVars>>

\* ------------------------------------------- matrix: parsing the input
\* a Go string is the sequence of its characters, each a one-character string
IsSpace(c) == c \in {" ", "\t", "\n", "\r"}

IsDigit(c) == c \in {"0", "1", "2", "3", "4", "5", "6", "7", "8", "9"}

DigitVal(c) ==
    CASE c = "0" -> 0 [] c = "1" -> 1 [] c = "2" -> 2 [] c = "3" -> 3
      [] c = "4" -> 4 [] c = "5" -> 5 [] c = "6" -> 6 [] c = "7" -> 7
      [] c = "8" -> 8 [] c = "9" -> 9

RECURSIVE TrimLeft(_)
TrimLeft(s) ==
    IF s # <<>> /\ IsSpace(Head(s)) THEN TrimLeft(Tail(s)) ELSE s

RECURSIVE TrimRight(_)
TrimRight(s) ==
    IF s # <<>> /\ IsSpace(s[Len(s)])
    THEN TrimRight(SubSeq(s, 1, Len(s) - 1))
    ELSE s

\* strings.TrimSpace
TrimSpace(s) == TrimRight(TrimLeft(s))

\* strings.Split(s, sep) for a one-character sep: the pieces between the
\* separators, always at least one (Split("", ",") is [""])
RECURSIVE Split(_, _)
Split(s, sep) ==
    IF \A k \in 1..Len(s) : s[k] # sep
    THEN <<s>>
    ELSE LET k == CHOOSE k \in 1..Len(s) :
                      s[k] = sep /\ \A j \in 1..(k - 1) : s[j] # sep
         IN  <<SubSeq(s, 1, k - 1)>> \o Split(SubSeq(s, k + 1, Len(s)), sep)

\* the loop of strconv.Atoi over the digits: n = n*10 + digit
RECURSIVE DecVal(_)
DecVal(ds) ==
    IF ds = <<>> THEN 0
    ELSE DecVal(SubSeq(ds, 1, Len(ds) - 1)) * 10 + DigitVal(ds[Len(ds)])

\* strconv.Atoi: an optional sign, then one or more decimal digits; anything
\* else is a syntax error and the value 0 (the inputs here stay far below
\* the 19 digits at which the range of int comes into play)
Atoi(s) ==
    LET ds == IF s # <<>> /\ s[1] \in {"+", "-"} THEN Tail(s) ELSE s
    IN  IF ds = <<>> \/ \E k \in 1..Len(ds) : ~IsDigit(ds[k])
        THEN [err |-> TRUE, val |-> 0]
        ELSE [err |-> FALSE,
              val |-> IF s[1] = "-" THEN 0 - DecVal(ds) ELSE DecVal(ds)]

\* return nil, fmt.Errorf(...)
ParseError(msg) == [err |-> msg, val |-> Nil]

\* a ParseConfigs that only asks for at least two fields
TooFewFields(parts) == Len(parts) < 2

\* len(parts) != 2
WrongFieldCount(parts) == Len(parts) # 2

\* the loop of ParseConfigs over the pairs still to read, configs read so far
RECURSIVE ParsePairs(_, _)
ParsePairs(pairs, configsRead) ==
    IF pairs = <<>> THEN [err |-> "", val |-> Some(configsRead)]
    ELSE LET pair == TrimSpace(Head(pairs))
             parts == Split(pair, ":")
         IN  IF WrongFieldCount(parts)
             THEN ParseError("invalid config format")
             ELSE LET cpus == Atoi(TrimSpace(parts[1]))
                      memory == Atoi(TrimSpace(parts[2]))
                  IN  IF cpus.err \/ cpus.val <= 0
                      THEN ParseError("invalid CPU value")
                      ELSE IF memory.err \/ memory.val <= 0
                      THEN ParseError("invalid memory value")
                      ELSE ParsePairs(Tail(pairs),
                               Append(configsRead,
                                      [CPUs |-> cpus.val, Memory |-> memory.val]))

\* ParseConfigs("2:8,4:16,8:32")
ParseConfigs(configStr) ==
    IF configStr = <<>> THEN ParseError("config string cannot be empty")
    ELSE ParsePairs(Split(configStr, ","), <<>>)

\* a ParseIntList that lets zero through
Negative(v) == v < 0

\* val <= 0
NotPositive(v) == v <= 0

\* the loop of ParseIntList over the parts still to read
RECURSIVE ParseParts(_, _)
ParseParts(parts, read) ==
    IF parts = <<>> THEN [err |-> "", val |-> Some(read)]
    ELSE LET n == Atoi(TrimSpace(Head(parts)))
         IN  IF n.err \/ NotPositive(n.val)
             THEN ParseError("invalid value")
             ELSE ParseParts(Tail(parts), Append(read, n.val))

\* ParseIntList("2,4,8,16")
ParseIntList(str) ==
    IF str = <<>> THEN ParseError("list string cannot be empty")
    ELSE ParseParts(Split(str, ","), <<>>)

\* the characters the parsers tell apart: digits, signs, a letter, the two
\* separators and a blank
Alphabet == {"0", "1", "+", "-", "x", ":", ",", " "}

ItemAlphabet == {"0", "1", "2", ":"}

\* every string of up to MaxLen characters, and every two-item list whose
\* items have MaxItemLen characters of ItemAlphabet
ParseInputs ==
    SeqsUpTo(Alphabet, MaxLen) \cup
    {a \o <<",">> \o b :
        a \in {t \in SeqsUpTo(ItemAlphabet, MaxItemLen) : Len(t) = MaxItemLen},
        b \in {t \in SeqsUpTo(ItemAlphabet, MaxItemLen) : Len(t) = MaxItemLen}}

\* one string is about to be parsed
ParseStart ==
    /\ arg \in {[str |-> t] : t \in ParseInputs}
    /\ ret = NoRet

callRest == <<arg, bconfig, bpc, bi, bWarmup, bRuns, bExecs, bRet,
              configs, pc, i, result, Results, runRet, runErr, exitCode,
              cancelled, sigChan, listener, signals, containers, handle,
              stopCalls, stopCtxDone, steps, lateStarts, workspace, output,
              benchExit, nested>>

\* matrix.ParseConfigs(arg.str)
CallParseConfigs ==
    /\ ret = NoRet
    /\ LET r == ParseConfigs(arg.str)
       IN  ret' = [kind |-> "ParseConfigs", err |-> r.err, val |-> r.val]
    /\ UNCHANGED callRest

\* matrix.ParseIntList(arg.str)
CallParseIntList ==
    /\ ret = NoRet
    /\ LET r == ParseIntList(arg.str)
       IN  ret' = [kind |-> "ParseIntList", err |-> r.err, val |-> r.val]
    /\ UNCHANGED callRest

\* ------------------------------------ matrix: generating the configs
\* for _, cpu := range cpus { append {cpu, fixedRAM} }
RECURSIVE GenerateSweepCPUConfigs(_, _)
GenerateSweepCPUConfigs(cpus, fixedRAM) ==
    IF cpus = <<>> THEN <<>>
    ELSE <<[CPUs |-> Head(cpus), Memory |-> fixedRAM]>>
             \o GenerateSweepCPUConfigs(Tail(cpus), fixedRAM)

\* for _, ram := range rams { append {fixedCPU, ram} }
RECURSIVE GenerateSweepRAMConfigs(_, _)
GenerateSweepRAMConfigs(rams, fixedCPU) ==
    IF rams = <<>> THEN <<>>
    ELSE <<[CPUs |-> fixedCPU, Memory |-> Head(rams)]>>
             \o GenerateSweepRAMConfigs(Tail(rams), fixedCPU)

RECURSIVE GenerateGridConfigs(_, _)

\* a grid built memory-major: the RAM loop outside, the CPU loop inside
GenerateGridConfigsRamMajor(cpus, rams) ==
    [n \in 1..(Len(cpus) * Len(rams)) |->
        [CPUs |-> cpus[((n - 1) % Len(cpus)) + 1],
         Memory |-> rams[((n - 1) \div Len(cpus)) + 1]]]

\* for _, cpu := range cpus { for _, ram := range rams { append {cpu, ram} } }
GenerateGridConfigs(cpus, rams) ==
    IF cpus = <<>> THEN <<>>
    ELSE GenerateSweepRAMConfigs(rams, Head(cpus))
             \o GenerateGridConfigs(Tail(cpus), rams)

\* the []int arguments: every list of up to MaxList values in 1..MaxVal
IntLists == SeqsUpTo(1..MaxVal, MaxList)

\* one call of a generator is about to be made
GenStart ==
    /\ arg \in [cpus : IntLists, rams : IntLists, fixed : 1..MaxVal]
    /\ ret = NoRet

\* matrix.GenerateGridConfigs(arg.cpus, arg.rams)
CallGenerateGridConfigs ==
    /\ ret = NoRet
    /\ ret' = [kind |-> "GenerateGridConfigs",
               val |-> GenerateGridConfigs(arg.cpus, arg.rams)]
    /\ UNCHANGED callRest

\* matrix.GenerateSweepCPUConfigs(arg.cpus, arg.fixed)
CallGenerateSweepCPUConfigs ==
    /\ ret = NoRet
    /\ ret' = [kind |-> "GenerateSweepCPUConfigs",
               val |-> GenerateSweepCPUConfigs(arg.cpus, arg.fixed)]
    /\ UNCHANGED callRest

\* matrix.GenerateSweepRAMConfigs(arg.rams, arg.fixed)
CallGenerateSweepRAMConfigs ==
    /\ ret = NoRet
    /\ ret' = [kind |-> "GenerateSweepRAMConfigs",
               val |-> GenerateSweepRAMConfigs(arg.rams, arg.fixed)]
    /\ UNCHANGED callRest

\* ------------------------------------------ the matrix subcommands
\* the --configs, --cpus/--ram, --rams/--cpu and --cpus/--rams values tried:
\* well-formed ones, whose configurations are in ConfigPool, and malformed ones
FrontArgs ==
    [sub : {"custom"},
     configs : {<<"1", ":", "4">>,
                <<"1", ":", "4", ",", "2", ":", "8">>,
                <<>>,
                <<"1", ":", "4", ",">>,
                <<"1", ":", "4", ",", "x", ":", "8">>,
                <<"1", ":", "4", ":", "1">>,
                <<"0", ":", "4">>,
                <<"1", ":", "-", "4">>}]
    \cup
    [sub : {"sweep-cpu"},
     cpus : {<<"1">>, <<"1", ",", "x">>, <<>>, <<"1", ",", "0">>},
     ram : {4, 0, -1}]
    \cup
    [sub : {"sweep-ram"},
     rams : {<<"4">>, <<"4", ",">>, <<"x">>},
     cpu : {1, 0}]
    \cup
    [sub : {"all"},
     cpus : {<<"1">>, <<"1", ",", ",">>},
     rams : {<<"4">>, <<"4", ",", "-", "8">>}]

\* the variables a subcommand's RunE leaves alone before runMatrixBenchmark
frontRest == <<arg, bconfig, bpc, bi, bWarmup, bRuns, bExecs, bRet,
               i, result, Results, runRet, runErr, cancelled, sigChan, signals,
               containers, handle, stopCalls, stopCtxDone, steps, lateStarts,
               workspace, output, benchExit, nested>>

\* a subcommand that builds the companion binary before it reports the error
BuildBeforeError(msg) == "build"

\* where a rejected input leads: the error is returned at once
AfterInputError(msg) == "done"

\* return fmt.Errorf(...) from a subcommand: Execute calls os.Exit(1)
InputRejected(msg) ==
    /\ ret' = [kind |-> "err", err |-> msg]
    /\ exitCode' = 1
    /\ pc' = AfterInputError(msg)
    /\ UNCHANGED <<configs, listener>>

\* return runMatrixBenchmark(config): the context, sigChan and the listener
\* goroutine are set up, BuildStaticBinary comes next
EnterMatrix(resourceConfigs) ==
    /\ ret' = [kind |-> "ok"]
    /\ configs' = resourceConfigs
    /\ pc' = "build"
    /\ listener' = "waiting"
    /\ exitCode' = exitCode

\* caliper matrix custom --configs ...
runCustom ==
    /\ pc = "idle" /\ ret = NoRet
    /\ arg.sub = "custom"
    /\ LET parsed == ParseConfigs(arg.configs)
       IN  IF parsed.err # ""
           THEN InputRejected("error parsing configs")
           ELSE EnterMatrix(parsed.val[1])
    /\ UNCHANGED frontRest

\* caliper matrix sweep-cpu --cpus ... --ram N
runSweepCPU ==
    /\ pc = "idle" /\ ret = NoRet
    /\ arg.sub = "sweep-cpu"
    /\ LET cpuList == ParseIntList(arg.cpus)
       IN  IF cpuList.err # ""
           THEN InputRejected("error parsing cpus")
           ELSE IF arg.ram <= 0
           THEN InputRejected("ram must be a positive integer")
           ELSE EnterMatrix(GenerateSweepCPUConfigs(cpuList.val[1], arg.ram))
    /\ UNCHANGED frontRest

\* caliper matrix sweep-ram --rams ... --cpu N
runSweepRAM ==
    /\ pc = "idle" /\ ret = NoRet
    /\ arg.sub = "sweep-ram"
    /\ LET ramList == ParseIntList(arg.rams)
       IN  IF ramList.err # ""
           THEN InputRejected("error parsing rams")
           ELSE IF arg.cpu <= 0
           THEN InputRejected("cpu must be a positive integer")
           ELSE EnterMatrix(GenerateSweepRAMConfigs(ramList.val[1], arg.cpu))
    /\ UNCHANGED frontRest

\* caliper matrix all --cpus ... --rams ...
runAll ==
    /\ pc = "idle" /\ ret = NoRet
    /\ arg.sub = "all"
    /\ LET cpuList == ParseIntList(arg.cpus)
           ramList == ParseIntList(arg.rams)
       IN  IF cpuList.err # ""
           THEN InputRejected("error parsing cpus")
           ELSE IF ramList.err # ""
           THEN InputRejected("error parsing rams")
           ELSE EnterMatrix(GenerateGridConfigs(cpuList.val[1], ramList.val[1]))
    /\ UNCHANGED frontRest

\* a matrix subcommand has read its flags; nothing has run yet
FrontStart ==
    /\ arg \in FrontArgs
    /\ ret = NoRet

\* ------------------------------------- the single-benchmark command
\* caliper -n <runs> -c <command> [--no-warmup]: the flags runBenchmark reads
CmdArgs == [runs : -1..MaxRuns, command : {"", "make"}, noWarmup : BOOLEAN]

\* the command has parsed its flags; benchmark.Run is not called yet
CmdStart ==
    /\ arg \in CmdArgs
    /\ ret = NoRet
    /\ bconfig = [Runs |-> 1, SkipWarmup |-> TRUE]
    /\ bpc = "validate"
    /\ bi = 0
    /\ bWarmup = Nil
    /\ bRuns = <<>>
    /\ bExecs = <<>>
    /\ bRet = [kind |-> "none"]

\* the matrix variables a single-benchmark command leaves alone
cmdRest == <<configs, pc, i, result, Results, runRet, runErr, cancelled, sigChan,
             listener, signals, containers, handle, stopCalls, stopCtxDone, steps,
             lateStarts, workspace, output, benchExit, nested>>

\* return err from runBenchmark: Execute calls os.Exit(1)
CmdFails(msg) ==
    /\ ret' = [kind |-> "err", err |-> msg]
    /\ exitCode' = 1
    /\ bpc' = "exited"
    /\ bconfig' = bconfig

\* runBenchmark up to the call of benchmark.Run: help when neither flag is
\* given, validation of --runs and --command, os.MkdirAll(outputDir)
runBenchmark ==
    /\ bpc = "validate"
    /\ IF arg.runs = 0 /\ arg.command = ""
       THEN /\ ret' = [kind |-> "help"]
            /\ exitCode' = 0
            /\ bpc' = "exited"
            /\ bconfig' = bconfig
       ELSE IF arg.runs <= 0
       THEN CmdFails("--runs/-n is required and must be greater than 0")
       ELSE IF arg.command = ""
       THEN CmdFails("--command/-c is required")
       ELSE \E o \in LocalOutcomes :
              IF o = "err"
              THEN CmdFails("error creating output directory")
              ELSE /\ bconfig' = [Runs |-> arg.runs, SkipWarmup |-> arg.noWarmup]
                   /\ bpc' = "warmup"
                   /\ UNCHANGED <<ret, exitCode>>
    /\ UNCHANGED <<bi, bWarmup, bRuns, bExecs, bRet, arg>>
    /\ UNCHANGED cmdRest

\* runBenchmark after benchmark.Run: an error is returned (exit 1); otherwise
\* the three saves only warn, then os.Exit(1) if result.SuccessRate < 100
CmdExit ==
    /\ bpc = "returned"
    /\ IF bRet.kind = "err"
       THEN /\ ret' = [kind |-> "err", err |-> "error running benchmark"]
            /\ exitCode' = 1
       ELSE /\ ret' = [kind |-> "ran"]
            /\ exitCode' = BenchExitCode(bRet.result)
    /\ bpc' = "exited"
    /\ UNCHANGED <<bconfig, bi, bWarmup, bRuns, bExecs, bRet, arg>>
    /\ UNCHANGED cmdRest

\* ----------------------------------------------- natural numbers, any size
\* A natural number is the sequence of its digits in base 2^15, lowest first,
\* without leading zeros (0 is <<>>): 64-bit integers and the 53-bit mantissas
\* of float64 values do not fit the model checker's integers.
Base == 2 ^ 15

RECURSIVE Norm(_)
Norm(a) == IF a # <<>> /\ a[Len(a)] = 0 THEN Norm(SubSeq(a, 1, Len(a) - 1)) ELSE a

RECURSIVE NatOf(_)
NatOf(n) == IF n = 0 THEN <<>> ELSE <<n % Base>> \o NatOf(n \div Base)

RECURSIVE IntOf(_)
IntOf(a) == IF a = <<>> THEN 0 ELSE Head(a) + Base * IntOf(Tail(a))

Limb(a, k) == IF k <= Len(a) THEN a[k] ELSE 0

RECURSIVE AddFrom(_, _, _, _)
AddFrom(a, b, k, carry) ==
    IF k > Len(a) /\ k > Len(b)
    THEN IF carry = 0 THEN <<>> ELSE <<carry>>
    ELSE LET t == Limb(a, k) + Limb(b, k) + carry
         IN  <<t % Base>> \o AddFrom(a, b, k + 1, t \div Base)

NatAdd(a, b) == AddFrom(a, b, 1, 0)

RECURSIVE SubFrom(_, _, _, _)
SubFrom(a, b, k, borrow) ==
    IF k > Len(a)
    THEN <<>>
    ELSE LET t == a[k] - Limb(b, k) - borrow
         IN  <<IF t < 0 THEN t + Base ELSE t>>
             \o SubFrom(a, b, k + 1, IF t < 0 THEN 1 ELSE 0)

\* a - b for a >= b
NatSub(a, b) == Norm(SubFrom(a, b, 1, 0))

RECURSIVE CmpFrom(_, _, _)
CmpFrom(a, b, k) ==
    IF k = 0 THEN 0
    ELSE IF a[k] < b[k] THEN -1
    ELSE IF a[k] > b[k] THEN 1
    ELSE CmpFrom(a, b, k - 1)

\* -1, 0 or 1 as a < b, a = b or a > b
NatCmp(a, b) ==
    IF Len(a) < Len(b) THEN -1
    ELSE IF Len(a) > Len(b) THEN 1
    ELSE CmpFrom(a, b, Len(a))

RECURSIVE MulSmallFrom(_, _, _, _)
MulSmallFrom(a, d, k, carry) ==
    IF k > Len(a)
    THEN IF carry = 0 THEN <<>> ELSE <<carry>>
    ELSE LET t == a[k] * d + carry
         IN  <<t % Base>> \o MulSmallFrom(a, d, k + 1, t \div Base)

\* a * d for 0 <= d <= Base
NatMulSmall(a, d) == IF d = 0 THEN <<>> ELSE MulSmallFrom(a, d, 1, 0)

\* a * Base^k
ShiftLimbs(a, k) == IF a = <<>> THEN <<>> ELSE [j \in 1..k |-> 0] \o a

RECURSIVE NatMul(_, _)
NatMul(a, b) ==
    IF a = <<>> \/ b = <<>>
    THEN <<>>
    ELSE NatAdd(NatMulSmall(a, Head(b)), ShiftLimbs(NatMul(a, Tail(b)), 1))

RECURSIVE DivSmallFrom(_, _, _, _)
DivSmallFrom(a, d, k, rem) ==
    IF k = 0
    THEN [q |-> <<>>, r |-> rem]
    ELSE LET cur == rem * Base + a[k]
             rest == DivSmallFrom(a, d, k - 1, cur % d)
         IN  [q |-> Append(rest.q, cur \div d), r |-> rest.r]

\* quotient and remainder of a by d, for 1 <= d <= Base
NatDivSmall(a, d) ==
    LET x == DivSmallFrom(a, d, Len(a), 0)
    IN  [q |-> Norm(x.q), r |-> x.r]

RECURSIVE BitLenSmall(_)
BitLenSmall(n) == IF n = 0 THEN 0 ELSE 1 + BitLenSmall(n \div 2)

\* the number of binary digits of a
BitLen(a) == IF a = <<>> THEN 0 ELSE 15 * (Len(a) - 1) + BitLenSmall(a[Len(a)])

RECURSIVE TrailingZeros(_)
TrailingZeros(a) ==
    IF Head(a) = 0 THEN 15 + TrailingZeros(Tail(a))
    ELSE IF Head(a) % 2 = 0 THEN 1 + TrailingZeros(<<Head(a) \div 2>>)
    ELSE 0

\* a * 2^k and a \div 2^k
ShiftLeft(a, k) == ShiftLimbs(NatMulSmall(a, 2 ^ (k % 15)), k \div 15)
ShiftRight(a, k) ==
    IF k \div 15 >= Len(a)
    THEN <<>>
    ELSE NatDivSmall(SubSeq(a, (k \div 15) + 1, Len(a)), 2 ^ (k % 15)).q

IsOdd(a) == a # <<>> /\ a[1] % 2 = 1

\* r with the bits k down to lo fixed so that r * r <= n stays true
RECURSIVE SqrtBits(_, _, _, _)
SqrtBits(n, r, k, lo) ==
    IF k < lo
    THEN r
    ELSE LET c == NatAdd(r, ShiftLeft(<<1>>, k))
         IN  IF NatCmp(NatMul(c, c), n) <= 0
             THEN SqrtBits(n, c, k - 1, lo)
             ELSE SqrtBits(n, r, k - 1, lo)

\* the largest r with r * r <= n, one base-2^15 digit at a time from digit j
\* down; it stops early when the root is exact
RECURSIVE SqrtDigits(_, _, _)
SqrtDigits(n, r, j) ==
    IF j < 0
    THEN r
    ELSE LET next == SqrtBits(n, r, 15 * j + 14, 15 * j)
         IN  IF NatMul(next, next) = n THEN next ELSE SqrtDigits(n, next, j - 1)

NatSqrt(n) == SqrtDigits(n, <<>>, Len(n) \div 2)

\* ------------------------------------------------------ float64 (binary64)
\* A finite float64 is (-1)^neg * m * 2^e with m odd, or zero; the values of
\* the model stay far from the subnormal and the overflow range.  Every
\* operation computes the exact result and rounds it once to 53 bits, to
\* nearest, ties to even, as the hardware does.
Precision == 53

F64Zero == [neg |-> FALSE, m |-> <<>>, e |-> 0]

\* the exact value (-1)^neg * m * 2^e in its unique form
Dyadic(neg, m, e) ==
    IF m = <<>>
    THEN F64Zero
    ELSE LET z == TrailingZeros(m)
         IN  [neg |-> neg, m |-> ShiftRight(m, z), e |-> e + z]

\* x rounded to the nearest float64, ties to even
Round(x) ==
    LET len == BitLen(x.m)
    IN  IF len <= Precision
        THEN x
        ELSE LET s == len - Precision
                 q == ShiftRight(x.m, s)
                 r == NatSub(x.m, ShiftLeft(q, s))
                 c == NatCmp(r, ShiftLeft(<<1>>, s - 1))
                 up == c > 0 \/ (c = 0 /\ IsOdd(q))
             IN  Dyadic(x.neg, IF up THEN NatAdd(q, <<1>>) ELSE q, x.e + s)

Neg(x) == IF x.m = <<>> THEN x ELSE [x EXCEPT !.neg = ~x.neg]

\* exact sum and product
ExactAdd(x, y) ==
    LET e == IF x.e < y.e THEN x.e ELSE y.e
        a == ShiftLeft(x.m, x.e - e)
        b == ShiftLeft(y.m, y.e - e)
    IN  IF x.m = <<>> THEN y
        ELSE IF y.m = <<>> THEN x
        ELSE IF x.neg = y.neg THEN Dyadic(x.neg, NatAdd(a, b), e)
        ELSE IF NatCmp(a, b) >= 0 THEN Dyadic(x.neg, NatSub(a, b), e)
        ELSE Dyadic(y.neg, NatSub(b, a), e)

ExactMul(x, y) == Dyadic(x.neg # y.neg, NatMul(x.m, y.m), x.e + y.e)

\* float64(n) for a small integer n, and the operators + - * of float64
F64(n) == Dyadic(n < 0, NatOf(IF n < 0 THEN -n ELSE n), 0)
F64Add(x, y) == Round(ExactAdd(x, y))
F64Sub(x, y) == Round(ExactAdd(x, Neg(y)))
F64Mul(x, y) == Round(ExactMul(x, y))

\* x*y + z with the product and the sum fused into one rounding, as the
\* compiler may emit it (FMA) on arm64, ppc64, s390x and riscv64
F64FMA(x, y, z) == Round(ExactAdd(ExactMul(x, y), z))

\* x / float64(d) for an integer 1 <= d < Base: GuardBits more quotient bits
\* than x has, and one sticky bit for the remainder, decide the rounding
GuardBits == Precision + 17

F64Div(x, d) ==
    LET qr == NatDivSmall(ShiftLeft(x.m, GuardBits), d)
        sticky == IF qr.r = 0 THEN 0 ELSE 1
    IN  IF x.m = <<>>
        THEN F64Zero
        ELSE Round(Dyadic(x.neg, NatAdd(ShiftLeft(qr.q, 1), NatOf(sticky)),
                          x.e - GuardBits - 1))

\* math.Sqrt(x) for x >= 0
F64Sqrt(x) ==
    LET k == 2 * Precision + 4 + (x.e % 2)
        n == ShiftLeft(x.m, k)
        r == NatSqrt(n)
        sticky == IF NatMul(r, r) = n THEN 0 ELSE 1
    IN  IF x.m = <<>>
        THEN F64Zero
        ELSE Round(Dyadic(FALSE, NatAdd(ShiftLeft(r, 1), NatOf(sticky)),
                          ((x.e - k) \div 2) - 1))

\* x < y and x <= y
F64Less(x, y) == ExactAdd(x, Neg(y)).neg
F64LE(x, y) == ~F64Less(y, x)

\* int(math.Floor(x)) and int(math.Ceil(x)) for a small x >= 0
Floor(x) == IF x.e >= 0 THEN IntOf(ShiftLeft(x.m, x.e)) ELSE IntOf(ShiftRight(x.m, -x.e))
Ceil(x) == IF x.e >= 0 THEN Floor(x) ELSE Floor(x) + 1

\* ------------------------------- benchmark: CalculateStatistics in float64
\* time.Duration.Seconds() of a duration of ms milliseconds:
\* float64(sec) + float64(nsec)/1e9, and float64(nsec)/1e9 is the float64
\* nearest to (ms % 1000)/1000
Seconds(ms) == F64Add(F64(ms \div 1000), F64Div(F64(ms % 1000), 1000))

\* x*y + z as the build compiles it: two roundings, or one when fused
MulAdd(fma, x, y, z) == IF fma THEN F64FMA(x, y, z) ELSE F64Add(F64Mul(x, y), z)

RECURSIVE Insert64(_, _)
Insert64(x, s) ==
    IF s = <<>> THEN <<x>>
    ELSE IF F64LE(x, Head(s)) THEN <<x>> \o s
    ELSE <<Head(s)>> \o Insert64(x, Tail(s))

\* sort.Float64s
RECURSIVE Sort64(_)
Sort64(s) == IF s = <<>> THEN <<>> ELSE Insert64(Head(s), Sort64(Tail(s)))

\* sum := 0.0; for _, d := range durations { sum += d }, from element k on
RECURSIVE Sum64(_, _, _)
Sum64(durations, k, sum) ==
    IF k > Len(durations) THEN sum
    ELSE Sum64(durations, k + 1, F64Add(sum, durations[k]))

\* a deviation measured from zero instead of from the mean
DeviationFromZero(d, mean) == d

\* diff := d - stats.Mean
Deviation(d, mean) == F64Sub(d, mean)

\* variance := 0.0; for ... { variance += diff * diff }, from element k on
RECURSIVE SumSq64(_, _, _, _, _)
SumSq64(fma, durations, mean, k, variance) ==
    IF k > Len(durations) THEN variance
    ELSE LET diff == Deviation(durations[k], mean)
         IN  SumSq64(fma, durations, mean, k + 1,
                     MulAdd(fma # "none", diff, diff, variance))

\* a percentile that takes the nearer of the two closest ranks
NearestRank(fma, lo, hi, weight) ==
    IF F64Less(weight, F64Div(F64(1), 2)) THEN lo ELSE hi

\* sorted[lowerIndex]*(1-weight) + sorted[upperIndex]*weight;
\* fma says which product the build fuses into the sum
Interpolate(fma, lo, hi, weight) ==
    LET rest == F64Sub(F64(1), weight)
    IN  CASE fma = "none" -> F64Add(F64Mul(lo, rest), F64Mul(hi, weight))
          [] fma = "left" -> F64FMA(lo, rest, F64Mul(hi, weight))
          [] fma = "right" -> F64FMA(hi, weight, F64Mul(lo, rest))

\* percentile(sorted, p) with the indices 0-based as in the source
percentile64(fma, sorted, p) ==
    IF Len(sorted) = 0 THEN F64Zero
    ELSE IF Len(sorted) = 1 THEN sorted[1]
    ELSE LET rank == F64Mul(F64Div(F64(p), 100), F64(Len(sorted) - 1))
             lowerIndex == Floor(rank)
             upperIndex == Ceil(rank)
             weight == F64Sub(rank, F64(lowerIndex))
             lo == sorted[lowerIndex + 1]
             hi == sorted[upperIndex + 1]
         IN  IF lowerIndex = upperIndex
             THEN sorted[lowerIndex + 1]
             ELSE Interpolate(fma, lo, hi, weight)

\* Statistics{}: the zero value of the struct
ZeroStats64 ==
    [N |-> 0, Mean |-> F64Zero, Median |-> F64Zero, StdDev |-> F64Zero,
     Min |-> F64Zero, Max |-> F64Zero, P90 |-> F64Zero, P95 |-> F64Zero]

\* CalculateStatistics(durations) on float64 values
CalculateStatistics64(fma, durations) ==
    IF Len(durations) = 0 THEN ZeroStats64
    ELSE LET n == Len(durations)
             sorted == Sort64(durations)
             mean == F64Div(Sum64(durations, 1, F64Zero), n)
             variance == F64Div(SumSq64(fma, durations, mean, 1, F64Zero), n)
         IN  [N |-> n,
              Mean |-> mean,
              Median |-> percentile64(fma, sorted, 50),
              StdDev |-> F64Sqrt(variance),
              Min |-> sorted[1],
              Max |-> sorted[n],
              P90 |-> percentile64(fma, sorted, 90),
              P95 |-> percentile64(fma, sorted, 95)]

\* the measured durations tried, in milliseconds, and the sample size
MaxSample == 3
SampleMs == {0, 100, 460, 1000}

\* the fused multiply-adds of the build: none (amd64), or the left or the
\* right product of percentile's interpolation, and variance's, fused
FMAModes == {"none", "left", "right"}

\* four runs of 10, 20, 30 and 40 seconds, in three of their orders
OrderedSamples ==
    {<<10000, 20000, 30000, 40000>>,
     <<40000, 30000, 20000, 10000>>,
     <<30000, 10000, 40000, 20000>>}

\* one call of CalculateStatistics is about to be made
StatsStart ==
    /\ arg \in [ms : (SeqsUpTo(SampleMs, MaxSample) \ {<<>>}) \cup OrderedSamples,
                fma : FMAModes]
    /\ ret = NoRet

\* benchmark.CalculateStatistics(durations) on the durations in seconds
CallCalculateStatistics ==
    /\ ret = NoRet
    /\ LET durations == [k \in 1..Len(arg.ms) |-> Seconds(arg.ms[k])]
       IN  ret' = [kind |-> "CalculateStatistics",
                   durations |-> durations,
                   stats |-> CalculateStatistics64(arg.fma, durations)]
    /\ UNCHANGED callRest

\* ---------------------------------------- docker: the resource limits
\* An int64 is kept as its 64-bit pattern, a natural number below 2^64;
\* Go's int has 64 bits on the platforms Docker runs on.
Wrap64(n) == NatSub(n, ShiftLeft(ShiftRight(n, 64), 64))

\* a * b in int64: the low 64 bits of the product
Mul64(a, b) == Wrap64(NatMul(a, b))

\* the signed value of a 64-bit pattern
Int64(p) ==
    IF NatCmp(p, ShiftLeft(<<1>>, 63)) < 0
    THEN [neg |-> FALSE, mag |-> p]
    ELSE [neg |-> TRUE, mag |-> NatSub(ShiftLeft(<<1>>, 64), p)]

\* the %d verb of fmt.Sprintf on a natural number
RECURSIVE FormatDigits(_)
FormatDigits(n) ==
    IF n = <<>>
    THEN <<>>
    ELSE LET qr == NatDivSmall(n, 10)
         IN  Append(FormatDigits(qr.q),
                    <<"0", "1", "2", "3", "4", "5", "6", "7", "8", "9">>[qr.r + 1])

FormatInt(n) == IF n = <<>> THEN <<"0">> ELSE FormatDigits(n)

\* the container.HostConfig that CreateContainerWithDebug builds from cfg
HostConfigOf(cfg) ==
    LET memoryBytes == Mul64(Mul64(Mul64(cfg.Memory, NatOf(1024)), NatOf(1024)),
                             NatOf(1024))
        nanoCPUs == Mul64(cfg.CPUs, NatOf(1000000000))
        cpusetCPUs == IF cfg.CPUs = <<1>>
                      THEN <<"0">>
                      ELSE <<"0", "-">> \o FormatInt(NatSub(cfg.CPUs, <<1>>))
    IN  [Memory |-> Int64(memoryBytes),
         MemorySwap |-> Int64(memoryBytes),
         NanoCPUs |-> Int64(nanoCPUs),
         CpusetCpus |-> cpusetCPUs,
         Binds |-> <<cfg.MountPath \o <<":", "/workspace">>>>]

\* the daemon refuses a negative memory limit or CPU quota; whether it has
\* the cores and the memory asked for depends on the host
DaemonAccepts(hostCfg) == ~hostCfg.Memory.neg /\ ~hostCfg.NanoCPUs.neg

\* the CPU counts and the memory sizes (GB) tried: the small ones, and around
\* the largest values that strconv.Atoi returns and whose limit fits int64
MaxCPUs == 3
MaxMemory == 3

EdgeCPUs ==
    LET most == NatDivSmall(NatDivSmall(NatDivSmall(
                    NatSub(ShiftLeft(<<1>>, 63), <<1>>), 1000).q, 1000).q, 1000).q
    IN  {most, NatAdd(most, <<1>>)}

EdgeMemory ==
    {NatSub(ShiftLeft(<<1>>, 33), <<1>>), ShiftLeft(<<1>>, 33), ShiftLeft(<<1>>, 34)}

ContainerConfigs ==
    [CPUs : {NatOf(k) : k \in 1..MaxCPUs} \cup EdgeCPUs,
     Memory : {NatOf(k) : k \in 1..MaxMemory} \cup EdgeMemory,
     MountPath : {<<"/", "w">>, <<"/", "w", "2">>}]

\* one call of CreateContainerWithDebug is about to be made
CreateStart ==
    /\ arg \in ContainerConfigs
    /\ ret = NoRet

\* DockerClient.CreateContainerWithDebug(ctx, arg, debug)
CallCreateContainer ==
    /\ ret = NoRet
    /\ \E o \in CreateOutcomes(FALSE) :
         LET hostCfg == HostConfigOf(arg)
         IN  /\ DaemonAccepts(hostCfg) \/ o = "createErr"
             /\ ret' = [kind |-> "CreateContainer", hostCfg |-> hostCfg,
                        outcome |-> o]
    /\ UNCHANGED callRest

\* ------------------------------------- docker: CopyDirFromContainer
\* the longest archive that is extracted
MaxEntries == 3

\* a host path is the sequence of its components, a component a string like
\* any other (the sequence of its characters); dstPath is an existing directory
DstPath == << <<"o">> >>

\* a node of the host file system: a directory, or a regular file and its bytes
DirNode == [type |-> "dir", data |-> 0]

FileNode(data) == [type |-> "reg", data |-> data]

\* strings.SplitN(name, "/", 2): cut at the first "/", if there is one
SplitN2(name) ==
    IF \A k \in 1..Len(name) : name[k] # "/"
    THEN <<name>>
    ELSE LET k == CHOOSE k \in 1..Len(name) :
                      name[k] = "/" /\ \A j \in 1..(k - 1) : name[j] # "/"
         IN  <<SubSeq(name, 1, k - 1), SubSeq(name, k + 1, Len(name))>>

\* a CopyDirFromContainer that writes every entry under its full name
NotStripped(parts) == parts[1] \o <<"/">> \o parts[2]

\* name = parts[1]: what is left of the name without its first component
Stripped(parts) == parts[2]

\* filepath.Clean on the components: empty and "." components go, ".." takes
\* the component before it with it
RECURSIVE Clean(_)
Clean(comps) ==
    IF comps = <<>> THEN <<>>
    ELSE LET init == Clean(SubSeq(comps, 1, Len(comps) - 1))
             last == comps[Len(comps)]
         IN  IF last = <<>> \/ last = <<".">> THEN init
             ELSE IF last = <<".", ".">>
             THEN (IF init = <<>> THEN <<>> ELSE SubSeq(init, 1, Len(init) - 1))
             ELSE Append(init, last)

\* filepath.Join(dstPath, name)
Join(dir, name) == Clean(dir \o Split(name, "/"))

\* filepath.Dir(target)
Dir(path) == SubSeq(path, 1, Len(path) - 1)

Prefixes(path) == {SubSeq(path, 1, k) : k \in 1..Len(path)}

\* the file system fs with node written at path
WriteNode(fs, path, node) ==
    [p \in DOMAIN fs \cup {path} |-> IF p = path THEN node ELSE fs[p]]

\* os.MkdirAll(path): fails when a component of path is a regular file,
\* else makes the directories of path that are missing
MkdirAll(fs, path) ==
    IF \E p \in Prefixes(path) : p \in DOMAIN fs /\ fs[p].type = "reg"
    THEN [err |-> TRUE, fs |-> fs]
    ELSE [err |-> FALSE,
          fs |-> [p \in DOMAIN fs \cup Prefixes(path) |->
                     IF p \in DOMAIN fs THEN fs[p] ELSE DirNode]]

\* os.Create(target) and io.Copy(outFile, tr): fails on a directory, else
\* the file holds the bytes of the entry, whatever it held before
CreateFile(fs, target, data) ==
    IF target \in DOMAIN fs /\ fs[target].type = "dir"
    THEN [err |-> "failed to create file", fs |-> fs]
    ELSE [err |-> "", fs |-> WriteNode(fs, target, FileNode(data))]

\* the body of the loop for one header
ExtractEntry(fs, header) ==
    LET parts == SplitN2(header.Name)
    IN  IF Len(parts) > 1
        THEN LET target == Join(DstPath, Stripped(parts))
             IN  CASE header.Typeflag = "dir" ->
                          LET made == MkdirAll(fs, target)
                          IN  [err |-> IF made.err THEN "failed to create directory"
                                       ELSE "",
                               fs |-> made.fs]
                   [] header.Typeflag = "reg" ->
                          LET made == MkdirAll(fs, Dir(target))
                          IN  IF made.err
                              THEN [err |-> "failed to create parent directory",
                                    fs |-> made.fs]
                              ELSE CreateFile(made.fs, target, header.data)
                   [] OTHER -> [err |-> "", fs |-> fs]
        ELSE [err |-> "", fs |-> fs]

\* the loop over the tar stream from header k on; a stream that is cut short
\* ends in an error of tr.Next() instead of io.EOF
RECURSIVE ExtractFrom(_, _, _, _)
ExtractFrom(fs, entries, k, truncated) ==
    IF k > Len(entries)
    THEN [err |-> IF truncated THEN "failed to read tar" ELSE "", fs |-> fs]
    ELSE LET done == ExtractEntry(fs, entries[k])
         IN  IF done.err # "" THEN done
             ELSE ExtractFrom(done.fs, entries, k + 1, truncated)

\* Container.CopyDirFromContainer(ctx, srcPath, dstPath) on the file system
\* fs, api being how the CopyFromContainer call ended
CopyDirFromContainer(fs, archive, api) ==
    IF api = "err"
    THEN [err |-> "failed to copy from container", fs |-> fs]
    ELSE LET made == MkdirAll(fs, DstPath)
         IN  IF made.err
             THEN [err |-> "failed to create destination directory", fs |-> made.fs]
             ELSE ExtractFrom(made.fs, archive.entries, 1, archive.truncated)

\* the names of an archive of the directory "r": the directory itself, with
\* and without the "/" tar gives a directory, a file or directory "a" or "d"
\* in it, an entry below "d", and an entry below a child that is called "r" too
EntryNames ==
    {<<"r">>, <<"r", "/">>, <<"r", "/", "a">>, <<"r", "/", "d">>,
     <<"r", "/", "d", "/">>, <<"r", "/", "d", "/", "a">>,
     <<"r", "/", "r", "/", "a">>}

\* tar.TypeDir, tar.TypeReg with one of two contents, or another type
Headers ==
    {[Name |-> n, Typeflag |-> "dir", data |-> 0] : n \in EntryNames} \cup
    {h \in [Name : EntryNames, Typeflag : {"reg"}, data : {1, 2}] :
         h.Name[Len(h.Name)] # "/"} \cup
    {h \in [Name : EntryNames, Typeflag : {"link"}, data : {0}] :
         h.Name[Len(h.Name)] # "/"}

Archives == [kind : {"CopyDir"}, entries : SeqsUpTo(Headers, MaxEntries), truncated : BOOLEAN]

\* the destination directory exists (runSingleConfig made it) and is empty
HostFS == [p \in {DstPath} |-> DirNode]

\* one call of CopyDirFromContainer is about to be made
CopyStart ==
    /\ arg \in Archives
    /\ ret = NoRet

CallCopyDirFromContainer ==
    /\ ret = NoRet
    /\ \E api \in ApiOutcomes(FALSE) :
         LET done == CopyDirFromContainer(HostFS, arg, api)
         IN  ret' = [kind |-> "CopyDir", err |-> done.err, fs |-> done.fs]
    /\ UNCHANGED callRest

\* ------------------------------------------------------ specifications
Init == MatrixStart /\ BenchIdle /\ CallIdle

Next ==
    \/ Interrupt
    \/ Listener
    \/ BuildBinary
    \/ Prelude
    \/ Loop
    \/ MkWorkspace
    \/ MkOutputDir
    \/ CreateContainer
    \/ Clone
    \/ CopyBinary
    \/ Chmod
    \/ MkResultsDir
    \/ ExecBenchmark
    \/ CopyResults
    \/ ParseResults
    \/ Stop
    \/ AppendResult
    \/ Exit

Spec == Init /\ [][Next]_vars

InitBench == BenchStart /\ MatrixIdle /\ CallIdle

NextBench ==
    \/ Warmup
    \/ NoWarmup
    \/ MeasuredRun
    \/ Finish

SpecBench == InitBench /\ [][NextBench]_vars

InitCmd == CmdStart /\ MatrixIdle

NextCmd ==
    \/ runBenchmark
    \/ Warmup
    \/ NoWarmup
    \/ MeasuredRun
    \/ Finish
    \/ CmdExit

SpecCmd == InitCmd /\ [][NextCmd]_vars

InitParse == ParseStart /\ MatrixIdle /\ BenchIdle

NextParse ==
    \/ CallParseConfigs
    \/ CallParseIntList

SpecParse == InitParse /\ [][NextParse]_vars

InitFront == FrontStart /\ MatrixIdle /\ BenchIdle

NextFront ==
    \/ runCustom
    \/ runSweepCPU
    \/ runSweepRAM
    \/ runAll
    \/ Next

SpecFront == InitFront /\ [][NextFront]_vars

InitGen == GenStart /\ MatrixIdle /\ BenchIdle

NextGen ==
    \/ CallGenerateGridConfigs
    \/ CallGenerateSweepCPUConfigs
    \/ CallGenerateSweepRAMConfigs

SpecGen == InitGen /\ [][NextGen]_vars

InitStats == StatsStart /\ MatrixIdle /\ BenchIdle

NextStats == CallCalculateStatistics

SpecStats == InitStats /\ [][NextStats]_vars

InitCreate == CreateStart /\ MatrixIdle /\ BenchIdle

NextCreate == CallCreateContainer

SpecCreate == InitCreate /\ [][NextCreate]_vars

InitCopy == CopyStart /\ MatrixIdle /\ BenchIdle

NextCopy == CallCopyDirFromContainer

SpecCopy == InitCopy /\ [][NextCopy]_vars


\* ============================================================== claims
\* runSingleConfig has returned for configuration k
Returned(k) == k < i \/ (k = i /\ pc = "append")

RunReturned == pc \in {"exit", "done"}

\* C1: whenever matrix.Run returns a MatrixResult, Results has exactly one
\* ConfigResult per entry of config.Configs, in input order: Results[k].Config
\* is config.Configs[k], whatever steps failed.
C1_OneResultPerConfigInOrder ==
    runRet = "result" =>
        /\ Len(Results) = Len(configs)
        /\ \A k \in 1..Len(configs) : Results[k].Config = configs[k]

\* Run returned a result for two different configurations, the first failed
C1_Witness ==
    /\ runRet = "result"
    /\ Len(configs) = 2
    /\ configs[1] # configs[2]
    /\ ~Results[1].Success
    /\ Results[2].Success

\* C2: a failure of a configuration at any step never aborts the matrix: once
\* the loop has started Run never returns an error, and when it returns every
\* configuration of the input was started (its first step attempted) and has
\* its result, also the ones after a failed configuration.
C2_FailureNeverAbortsMatrix ==
    /\ steps # {} => runRet # "error"
    /\ (RunReturned /\ runRet = "result") =>
          \A k \in 1..Len(configs) :
              /\ Attempted(k, "workspace")
              /\ k <= Len(Results)

\* the first configuration failed at clone, the second succeeded with statistics
C2_Witness ==
    /\ RunReturned
    /\ Len(Results) = 2
    /\ ~Results[1].Success
    /\ Results[1].Error = "git clone failed"
    /\ Results[2].Success
    /\ Results[2].SuccessRuns = mconfig.Runs
    /\ Results[2].Mean # Zero

\* C3: Container.Stop is invoked at most once per configuration, only on a
\* container CreateContainerWithDebug returned, and exactly once by the time
\* runSingleConfig returns, on every exit path.
C3_StopExactlyOncePerCreate ==
    \A k \in 1..MaxConfigs :
        /\ stopCalls[k] <= 1
        /\ stopCalls[k] = 1 => handle[k]
        /\ (Returned(k) /\ handle[k]) => stopCalls[k] = 1

\* one configuration failed after its container was created and was stopped
\* once; the other failed to create its container and Stop was never called
C3_Witness ==
    /\ Len(Results) = 2
    /\ handle[1] /\ stopCalls[1] = 1 /\ ~Results[1].Success
    /\ Results[1].Error = "failed to copy binary to container"
    /\ ~handle[2] /\ stopCalls[2] = 0
    /\ Results[2].Error = "failed to create container"

\* C4: cancellation never bypasses teardown: when Run has returned, every
\* container whose Stop was issued with the cancelled context is stopped and
\* removed all the same.
C4_CancelledTeardownStillRemoves ==
    RunReturned =>
        \A k \in 1..MaxConfigs : stopCtxDone[k] => containers[k] = "removed"

\* C5: after the cancellation signal fired no new configuration is started: no
\* step is attempted for a configuration that had not started before it.
C5_NoStepForConfigStartedAfterCancel ==
    \A s \in steps : s.cfg \notin lateStarts

\* every measured run of every configuration succeeded
AllRunsSucceeded ==
    \A k \in 1..Len(configs) :
        \A j \in 1..Len(nested[k]) : nested[k][j].Success

\* C10: the matrix command exits 0 only if every configuration succeeded and
\* every measured run within every configuration succeeded, and 1 otherwise.
C10_ExitZeroOnlyIfEveryRunSucceeded ==
    pc = "done" =>
        /\ exitCode \in {0, 1}
        /\ exitCode = 0 <=>
              /\ runRet = "result"
              /\ \A k \in 1..Len(Results) : Results[k].Success
              /\ AllRunsSucceeded

\* ---------------------------------------------------- benchmark.Run
SuccessfulRuns(runs) == {k \in 1..Len(runs) : runs[k].Success}

WarmupPassed == bconfig.SkipWarmup \/ (bWarmup # Nil /\ bWarmup[1].Success)

\* C6: when the warm-up is skipped or succeeds, Run executes the command
\* exactly config.Runs times as measured runs, whatever fails, and returns
\* Runs of that length with Runs[k].RunNumber = k in execution order.
C6_AllMeasuredRunsExecuted ==
    (bpc = "returned" /\ WarmupPassed) =>
        /\ bRet.kind = "result"
        /\ Len(bRet.result.Runs) = bconfig.Runs
        /\ \A k \in 1..bconfig.Runs : bRet.result.Runs[k].RunNumber = k
        /\ bExecs = (IF bconfig.SkipWarmup THEN <<>> ELSE <<0>>)
                        \o [k \in 1..bconfig.Runs |-> k]

\* three runs, the second failed, the third still ran
C6_Witness ==
    /\ bRet.kind = "result"
    /\ bconfig.Runs = 3
    /\ ~bRet.result.Runs[2].Success
    /\ bRet.result.Runs[3].Success
    /\ bExecs = <<0, 1, 2, 3>>

\* C7: with warm-up enabled a failed warm-up ends Run with an error, no Result
\* and no measured run; with warm-up disabled no warm-up is executed and
\* Result.WarmupRun is nil.
C7_WarmupFailureFailsFast ==
    /\ (bWarmup # Nil /\ ~bWarmup[1].Success) =>
          /\ bpc = "returned"
          /\ bRet.kind = "err"
          /\ bRuns = <<>>
          /\ bExecs = <<0>>
    /\ bconfig.SkipWarmup =>
          /\ \A k \in 1..Len(bExecs) : bExecs[k] # 0
          /\ bRet.kind = "result" => bRet.result.WarmupRun = Nil

\* the warm-up failed and Run returned its error
C7_Witness ==
    /\ ~bconfig.SkipWarmup
    /\ bWarmup # Nil
    /\ ~bWarmup[1].Success
    /\ bRet.kind = "err"

IsZeroStats(st) ==
    /\ st.N = 0
    /\ st.Mean = Zero /\ st.Median = Zero /\ st.StdDev = Zero
    /\ st.Min = Zero /\ st.Max = Zero /\ st.P90 = Zero /\ st.P95 = Zero

\* C8: Stats.N of a returned Result is the number of successful measured runs
\* (warm-up and failed runs do not count); when it is 0, as for
\* CalculateStatistics of the empty list, every statistic is 0.
C8_StatsCountSuccessfulRuns ==
    /\ IsZeroStats(CalculateStatistics(<<>>))
    /\ bRet.kind = "result" =>
          /\ bRet.result.Stats.N = Cardinality(SuccessfulRuns(bRet.result.Runs))
          /\ bRet.result.Stats.N = 0 => IsZeroStats(bRet.result.Stats)

\* the warm-up succeeded, every measured run failed
C8_Witness ==
    /\ bRet.kind = "result"
    /\ bRet.result.WarmupRun # Nil
    /\ bconfig.Runs >= 2
    /\ SuccessfulRuns(bRet.result.Runs) = {}
    /\ IsZeroStats(bRet.result.Stats)

\* C9: SuccessRate of a returned Result is 100 * successful measured runs /
\* config.Runs; the warm-up counts neither above nor below the line.
C9_SuccessRateOverConfiguredRuns ==
    bRet.kind = "result" =>
        bRet.result.SuccessRate.num * bconfig.Runs
            = 100 * Cardinality(SuccessfulRuns(bRet.result.Runs))
                  * bRet.result.SuccessRate.den

\* warm-up plus three runs, the second failed: 200/3 = 66.66...
C9_Witness ==
    /\ bRet.kind = "result"
    /\ bRet.result.WarmupRun # Nil
    /\ bconfig.Runs = 3
    /\ SuccessfulRuns(bRet.result.Runs) = {1, 3}
    /\ bRet.result.SuccessRate = [num |-> 200, den |-> 3]

\* ------------------------------------------- runSingleConfig: the parse
\* the parse step of the current configuration has run
ParseDone ==
    /\ pc \in {"stop", "append"}
    /\ Attempted(i, "parse")

\* ... and parseResultsJSON could not read a result file
ParseFailed == ParseDone /\ output[DirName(configs[i])] = Nil

\* C12: after the results directory was copied out, a failure to read the
\* result JSON fails the configuration (Success false, Error naming the exit
\* code) if and only if the benchmark exec exited non-zero; with exit code 0
\* the configuration is marked successful and its statistics stay zero.
C12_ParseFailureFatalIffExitNonZero ==
    ParseFailed =>
        /\ benchExit # 0 <=> ~result.Success
        /\ benchExit # 0 =>
              result = [NewConfigResult(configs[i])
                           EXCEPT !.Error = "benchmark failed (exit code 1)"]
        /\ benchExit = 0 =>
              result = [NewConfigResult(configs[i]) EXCEPT !.Success = TRUE]

\* the benchmark exited 0 without leaving a result file: success, zero statistics
C12_Witness ==
    /\ ParseFailed
    /\ pc = "append"
    /\ benchExit = 0
    /\ result.Success
    /\ result.Mean = Zero
    /\ nested[i] # <<>>

\* --------------------------------------------- matrix.Run before the loop
\* C17: when the Docker client cannot be created, the image can neither be
\* found nor pulled, or the output or temporary directory cannot be created,
\* Run returns nil and an error: it has returned, no container was created
\* and no ConfigResult was produced.
C17_PreludeFailureReturnsNilAndError ==
    (runRet = "error" \/ runErr # "") =>
        /\ runRet = "error"
        /\ runErr \in {"failed to create Docker client",
                       "failed to ensure Docker image",
                       "failed to create output directory",
                       "failed to create temp directory"}
        /\ RunReturned
        /\ Results = <<>>
        /\ result = NoResult
        /\ steps = {}
        /\ \A k \in 1..MaxConfigs : containers[k] = "none" /\ ~handle[k]

\* the image could be neither found nor pulled: the command exited 1
C17_Witness ==
    /\ runRet = "error"
    /\ runErr = "failed to ensure Docker image"
    /\ ~cancelled
    /\ pc = "done"
    /\ exitCode = 1
    /\ Results = <<>>

\* ------------------------------------- the single-benchmark command
CmdExited == bpc = "exited"

\* benchmark.Run returned a result in which every measured run succeeded
EveryMeasuredRunSucceeded ==
    /\ bRet.kind = "result"
    /\ Len(bRet.result.Runs) = arg.runs
    /\ \A k \in 1..arg.runs : bRet.result.Runs[k].Success
    /\ bRet.result.SuccessRate = FromInt(100)

HelpShown == arg.runs = 0 /\ arg.command = ""

SepPositions(s, sep) == {k \in 1..Len(s) : s[k] = sep}

\* the position of the n-th sep of s; 0 before the first, Len(s)+1 past the last
NthSep(s, sep, n) ==
    IF n = 0 THEN 0
    ELSE IF n > Cardinality(SepPositions(s, sep)) THEN Len(s) + 1
    ELSE CHOOSE k \in SepPositions(s, sep) :
             Cardinality({j \in SepPositions(s, sep) : j < k}) = n - 1

NItems(s, sep) == Cardinality(SepPositions(s, sep)) + 1

\* the k-th of the pieces that the separators cut s into
Item(s, sep, k) == SubSeq(s, NthSep(s, sep, k - 1) + 1, NthSep(s, sep, k) - 1)

\* f without the blanks around it
Core(f) ==
    LET inked == {k \in 1..Len(f) : ~IsSpace(f[k])}
    IN  IF inked = {} THEN <<>>
        ELSE SubSeq(f, CHOOSE a \in inked : \A k \in inked : a <= k,
                       CHOOSE b \in inked : \A k \in inked : k <= b)

Unsigned(c) == IF c # <<>> /\ c[1] \in {"+", "-"} THEN SubSeq(c, 2, Len(c)) ELSE c

RECURSIVE Pow10(_)
Pow10(n) == IF n = 0 THEN 1 ELSE 10 * Pow10(n - 1)

RECURSIVE PlaceSum(_, _)
PlaceSum(d, k) ==
    IF k > Len(d) THEN 0
    ELSE DigitVal(d[k]) * Pow10(Len(d) - k) + PlaceSum(d, k + 1)

\* f is, blanks aside, a decimal numeral with an optional sign
IsNumeral(f) ==
    /\ Unsigned(Core(f)) # <<>>
    /\ \A k \in 1..Len(Unsigned(Core(f))) : IsDigit(Unsigned(Core(f))[k])

\* the integer a numeral denotes
NumeralValue(f) ==
    IF Core(f)[1] = "-" THEN 0 - PlaceSum(Unsigned(Core(f)), 1)
    ELSE PlaceSum(Unsigned(Core(f)), 1)

IsPositiveInt(f) == IsNumeral(f) /\ NumeralValue(f) > 0

\* the item is CPU:RAM, two positive integers around one colon
IsPair(it) ==
    /\ NItems(it, ":") = 2
    /\ IsPositiveInt(Item(it, ":", 1))
    /\ IsPositiveInt(Item(it, ":", 2))

WellFormedConfigs(s) ==
    /\ s # <<>>
    /\ \A k \in 1..NItems(s, ",") : IsPair(Item(s, ",", k))

\* C13: ParseConfigs succeeds exactly when the input is non-empty and every
\* comma-separated item splits on ':' into exactly two positive integers;
\* on success there is one ResourceConfig per item, in input order, with the
\* item's two values ("2:8,4:16" gives [(2,8),(4,16)]); on any malformed
\* item it returns an error and no configurations at all.
C13_ParseConfigsAllOrNothing ==
    /\ ParseConfigs(<<"2", ":", "8", ",", "4", ":", "1", "6">>).val
          = Some(<<[CPUs |-> 2, Memory |-> 8], [CPUs |-> 4, Memory |-> 16]>>)
    /\ \A bad \in {<<"2", ":", "8", ":", "1">>, <<"x", ":", "8">>, <<>>,
                    <<"0", ":", "8">>, <<"2", ":", "-", "8">>,
                    <<"2", ":", "8", ",">>} :
          ParseConfigs(bad).err # "" /\ ParseConfigs(bad).val = Nil
    /\ ret.kind = "ParseConfigs" =>
          /\ ret.err = "" <=> WellFormedConfigs(arg.str)
          /\ ret.err # "" => ret.val = Nil
          /\ ret.err = "" =>
                /\ ret.val # Nil
                /\ Len(ret.val[1]) = NItems(arg.str, ",")
                /\ \A k \in 1..NItems(arg.str, ",") :
                      ret.val[1][k] =
                          [CPUs |-> NumeralValue(Item(Item(arg.str, ",", k), ":", 1)),
                           Memory |-> NumeralValue(Item(Item(arg.str, ",", k), ":", 2))]

\* "1:2,2:1" parsed into two configurations in input order
C13_Witness ==
    /\ ret.kind = "ParseConfigs"
    /\ arg.str = <<"1", ":", "2", ",", "2", ":", "1">>
    /\ ret.err = ""
    /\ ret.val = Some(<<[CPUs |-> 1, Memory |-> 2], [CPUs |-> 2, Memory |-> 1]>>)

\* a non-empty list of positive integers
WellFormedList(s) ==
    /\ s # <<>>
    /\ \A k \in 1..NItems(s, ",") : IsPositiveInt(Item(s, ",", k))

\* C14: ParseIntList returns an error and no list whenever the input is
\* empty or some comma-separated entry is not a positive integer; otherwise
\* it returns the entries' values in input order, all strictly positive.
C14_ParseIntListAllOrNothing ==
    ret.kind = "ParseIntList" =>
        LET malformed == ~WellFormedList(arg.str)
        IN  /\ malformed => ret.err # "" /\ ret.val = Nil
            /\ ~malformed =>
                  /\ ret.err = ""
                  /\ ret.val # Nil
                  /\ Len(ret.val[1]) = NItems(arg.str, ",")
                  /\ \A k \in 1..NItems(arg.str, ",") :
                        /\ ret.val[1][k] = NumeralValue(Item(arg.str, ",", k))
                        /\ ret.val[1][k] > 0

\* "10,1" parsed into [10, 1]
C14_Witness ==
    /\ ret.kind = "ParseIntList"
    /\ arg.str = <<"1", "0", ",", "1">>
    /\ ret.val = Some(<<10, 1>>)

\* ------------------------------------ matrix: generating the configs
\* C15: GenerateGridConfigs(cpus, rams) returns len(cpus)*len(rams)
\* configurations, CPU-major and memory-minor: the element at 0-based index
\* a*len(rams)+b is (cpus[a], rams[b]), so ([2,4],[8,16]) gives
\* [(2,8),(2,16),(4,8),(4,16)]; each sweep generator returns one
\* configuration per list element, in list order, the other axis fixed.
C15_GridIsCPUMajor ==
    /\ GenerateGridConfigs(<<2, 4>>, <<8, 16>>) =
          <<[CPUs |-> 2, Memory |-> 8], [CPUs |-> 2, Memory |-> 16],
            [CPUs |-> 4, Memory |-> 8], [CPUs |-> 4, Memory |-> 16]>>
    /\ ret.kind = "GenerateGridConfigs" =>
          /\ Len(ret.val) = Len(arg.cpus) * Len(arg.rams)
          /\ \A a \in 0..(Len(arg.cpus) - 1), b \in 0..(Len(arg.rams) - 1) :
                ret.val[a * Len(arg.rams) + b + 1] =
                    [CPUs |-> arg.cpus[a + 1], Memory |-> arg.rams[b + 1]]
    /\ ret.kind = "GenerateSweepCPUConfigs" =>
          /\ Len(ret.val) = Len(arg.cpus)
          /\ \A k \in 1..Len(arg.cpus) :
                ret.val[k] = [CPUs |-> arg.cpus[k], Memory |-> arg.fixed]
    /\ ret.kind = "GenerateSweepRAMConfigs" =>
          /\ Len(ret.val) = Len(arg.rams)
          /\ \A k \in 1..Len(arg.rams) :
                ret.val[k] = [CPUs |-> arg.fixed, Memory |-> arg.rams[k]]

\* a 2 x 3 grid: six configurations, the CPU value changing after three
C15_Witness ==
    /\ ret.kind = "GenerateGridConfigs"
    /\ arg.cpus = <<1, 2>>
    /\ arg.rams = <<2, 1, 2>>
    /\ Len(ret.val) = 6
    /\ ret.val[3] = [CPUs |-> 1, Memory |-> 2]
    /\ ret.val[4] = [CPUs |-> 2, Memory |-> 2]

\* ------------------------------------------ the matrix subcommands
\* the configuration input of the command line is malformed or invalid
MalformedInput ==
    CASE arg.sub = "custom" -> ~WellFormedConfigs(arg.configs)
      [] arg.sub = "sweep-cpu" -> ~WellFormedList(arg.cpus) \/ arg.ram <= 0
      [] arg.sub = "sweep-ram" -> ~WellFormedList(arg.rams) \/ arg.cpu <= 0
      [] arg.sub = "all" -> ~WellFormedList(arg.cpus) \/ ~WellFormedList(arg.rams)

\* C16: in every matrix subcommand a malformed or invalid configuration
\* input is rejected before the companion binary is built, before the Docker
\* client is created and before any container is created: the run of such a
\* command line never leaves its start except to exit 1, and no step of any
\* configuration is ever attempted in it.
C16_InputRejectedBeforeAnyWork ==
    MalformedInput =>
        /\ pc \in {"idle", "done"}
        /\ listener = "done"
        /\ steps = {}
        /\ \A k \in 1..MaxConfigs : containers[k] = "none" /\ ~handle[k]
        /\ pc = "done" => exitCode = 1 /\ ret.kind = "err" /\ runRet = "none"

\* sweep-cpu with a good CPU list and --ram 0: rejected, exit code 1
C16_Witness ==
    /\ arg.sub = "sweep-cpu"
    /\ arg.cpus = <<"1">>
    /\ arg.ram = 0
    /\ pc = "done"
    /\ exitCode = 1
    /\ ret = [kind |-> "err", err |-> "ram must be a positive integer"]

\* ------------------------------- benchmark: CalculateStatistics in float64
\* CalculateStatistics has returned
StatsDone == ret.kind = "CalculateStatistics"

\* C19: for every non-empty list of non-negative durations,
\* CalculateStatistics returns min <= median <= p90 <= p95 <= max and
\* min <= mean <= max.
C19_StatisticsAreOrdered ==
    StatsDone =>
        LET s == ret.stats
        IN  /\ F64LE(s.Min, s.Median)
            /\ F64LE(s.Median, s.P90)
            /\ F64LE(s.P90, s.P95)
            /\ F64LE(s.P95, s.Max)
            /\ F64LE(s.Min, s.Mean)
            /\ F64LE(s.Mean, s.Max)

\* C20 as stated: for a single-element list [x], n = 1 and every statistic,
\* the standard deviation included, equals x.
C20_SingleElementEveryStatisticIsX ==
    StatsDone /\ Len(arg.ms) = 1 =>
        LET s == ret.stats
            x == ret.durations[1]
        IN  /\ s.N = 1
            /\ s.Mean = x /\ s.Median = x /\ s.StdDev = x
            /\ s.Min = x /\ s.Max = x /\ s.P90 = x /\ s.P95 = x

\* C20: for a single-element list [x], CalculateStatistics returns n = 1,
\* mean, median, min, max, p90 and p95 equal to x, and standard deviation 0.
C20_SingleElementStatistics ==
    StatsDone /\ Len(arg.ms) = 1 =>
        LET s == ret.stats
            x == Seconds(arg.ms[1])
        IN  /\ ret.durations = <<x>>
            /\ s.N = 1
            /\ s.Mean = x /\ s.Median = x
            /\ s.Min = x /\ s.Max = x /\ s.P90 = x /\ s.P95 = x
            /\ s.StdDev = F64Zero

\* the statistics of the single duration 0.46 s
C20_Witness ==
    /\ StatsDone
    /\ arg.ms = <<460>>
    /\ ret.stats.N = 1
    /\ ret.stats.P95 = Seconds(460)
    /\ F64Less(F64Zero, ret.stats.P95)
    /\ ret.stats.StdDev = F64Zero

\* ---------------------------------------- docker: the resource limits
\* ContainerCreate accepted the configuration: the container exists
ContainerCreated == ret.kind = "CreateContainer" /\ ret.outcome # "createErr"

\* the natural number that a string of decimal digits denotes
RECURSIVE NatNumeral(_)
NatNumeral(s) ==
    IF s = <<>>
    THEN <<>>
    ELSE NatAdd(NatMulSmall(NatNumeral(SubSeq(s, 1, Len(s) - 1)), 10),
                NatOf(DigitVal(s[Len(s)])))

\* C18: for every ContainerConfig with CPUs >= 1 and Memory >= 1 the
\* container is created with memory limit Memory * 2^30 bytes, swap limit
\* equal to the memory limit, CPU quota CPUs * 10^9 nano-CPUs, the core set
\* "0" when CPUs is 1 and "0-<CPUs-1>" otherwise, and the host workspace
\* bound at /workspace.
C18_ContainerLimits ==
    ContainerCreated =>
        LET h == ret.hostCfg
            set == h.CpusetCpus
            thousands == NatDivSmall(h.NanoCPUs.mag, 1000)
            millions == NatDivSmall(thousands.q, 1000)
            billions == NatDivSmall(millions.q, 1000)
        IN  /\ h.Memory = [neg |-> FALSE, mag |-> ShiftLeft(arg.Memory, 30)]
            /\ h.MemorySwap = h.Memory
            /\ ~h.NanoCPUs.neg
            /\ thousands.r = 0 /\ millions.r = 0 /\ billions.r = 0
            /\ billions.q = arg.CPUs
            /\ IF arg.CPUs = <<1>>
               THEN set = <<"0">>
               ELSE /\ Len(set) >= 3
                    /\ set[1] = "0" /\ set[2] = "-" /\ set[3] # "0"
                    /\ \A k \in 3..Len(set) : IsDigit(set[k])
                    /\ NatAdd(NatNumeral(SubSeq(set, 3, Len(set))), <<1>>) = arg.CPUs
            /\ h.Binds = <<arg.MountPath \o <<":", "/workspace">>>>

\* ------------------------------------------------ benchmark: percentile
\* the durations of the call in ascending order: the one arrangement of the
\* input that ascends
IsSortedInput(s) ==
    /\ Len(s) = Len(ret.durations)
    /\ \A k \in 1..(Len(s) - 1) : F64LE(s[k], s[k + 1])
    /\ \E f \in Permutations(1..Len(s)) :
           \A k \in 1..Len(s) : s[k] = ret.durations[f[k]]

\* |x| <= t for exact values
Within(x, t) == ~F64Less(t, x) /\ ~F64Less(t, Neg(x))

\* v is the linear interpolation between the closest ranks of s at p percent:
\* with 100 * rank = p * (n - 1) in whole numbers, s[lo] when the rank is
\* whole, and otherwise s[lo]*(1-w) + s[hi]*w up to the rounding of float64
\* (one part in 2^40 of s[hi])
IsPercentile(v, s, p) ==
    LET r100 == p * (Len(s) - 1)
        lo == r100 \div 100
        w100 == r100 % 100
        exact100 == ExactAdd(ExactMul(s[lo + 1], F64(100 - w100)),
                             ExactMul(s[lo + 2], F64(w100)))
        tolerance == Dyadic(FALSE, s[lo + 2].m, s[lo + 2].e - 40)
    IN  IF w100 = 0
        THEN v = s[lo + 1]
        ELSE Within(ExactAdd(ExactMul(v, F64(100)), Neg(exact100)),
                    ExactMul(tolerance, F64(100)))

\* C21: on n >= 2 values percentile is the linear interpolation between the
\* closest ranks of the ascending list, so median (p = 50), p90 and p95 do
\* not depend on the order of the input, and [10,20,30,40] in any order
\* gives median 25, p90 = 37.0 and p95 = 38.5.
C21_PercentileInterpolates ==
    StatsDone /\ Len(arg.ms) >= 2 =>
        LET n == Len(arg.ms)
            stats == ret.stats
        IN  /\ \A s \in [1..n -> {ret.durations[k] : k \in 1..n}] :
                   IsSortedInput(s) =>
                       /\ IsPercentile(stats.Median, s, 50)
                       /\ IsPercentile(stats.P90, s, 90)
                       /\ IsPercentile(stats.P95, s, 95)
            /\ \E s \in [1..n -> {ret.durations[k] : k \in 1..n}] : IsSortedInput(s)
            /\ arg.ms \in OrderedSamples =>
                   /\ stats.Median = F64(25)
                   /\ stats.P90 = F64(37)
                   /\ stats.P95 = F64Div(F64(77), 2)

\* 30, 10, 40 and 20 seconds: p90 = 37.0 and p95 = 38.5
C21_Witness ==
    /\ StatsDone
    /\ arg.ms = <<30000, 10000, 40000, 20000>>
    /\ ret.stats.N = 4
    /\ ret.stats.P90 = F64(37)
    /\ ret.stats.P95 = F64Div(F64(77), 2)

\* ------------------------------------------------ matrix: the workspaces
\* C22: within one Run every configuration gets a workspace directory of its
\* own under the temporary root: no two configurations of the run use the
\* same directory, and no configuration that is about to clone finds a
\* /workspace/repo left by an earlier one.
C22_WorkspacesAreDisjoint ==
    /\ \A j, k \in 1..Len(configs) :
           j < k /\ Attempted(j, "workspace") /\ Attempted(k, "workspace") =>
               DirName(configs[j]) # DirName(configs[k])
    /\ pc = "clone" => ~workspace[DirName(configs[i])].repo

\* ------------------------------------- matrix: the steps of one configuration
\* the steps of runSingleConfig on the container, in the order of the code
Pipeline ==
    <<"create", "clone", "copybin", "chmod", "mkresults", "bench", "copyresults", "parse">>

StepRecord(k, name, ok) == [cfg |-> k, step |-> name, ok |-> ok]

FailedStep(k, name) == StepRecord(k, name, FALSE) \in steps

\* the texts runSingleConfig writes into result.Error for a failing step
StepErrors(name) ==
    CASE name = "create" -> {"failed to create container"}
      [] name = "clone" -> {"failed to execute git clone", "git clone failed"}
      [] name = "copybin" -> {"failed to copy binary to container"}
      [] name = "chmod" -> {"failed to make binary executable"}
      [] name = "mkresults" -> {"failed to create results directory"}
      [] name = "bench" -> {"failed to execute benchmark"}
      [] name = "copyresults" -> {"failed to copy results from container"}
      [] name = "parse" -> {ExitCodeError(0), ExitCodeError(1)}

\* configuration k ran its steps in the order of Pipeline, each one only once
\* the one before it had completed, none after a failed one, and the destroy
\* last, on a container that was created
StepsInOrder(k) ==
    /\ \A p \in 2..Len(Pipeline) :
           Attempted(k, Pipeline[p]) => StepRecord(k, Pipeline[p - 1], TRUE) \in steps
    /\ \A p \in 1..Len(Pipeline) :
           /\ ~(FailedStep(k, Pipeline[p]) /\ StepRecord(k, Pipeline[p], TRUE) \in steps)
           /\ FailedStep(k, Pipeline[p]) =>
                  \A q \in (p + 1)..Len(Pipeline) : ~Attempted(k, Pipeline[q])
    /\ Attempted(k, "stop") =>
           /\ StepRecord(k, "create", TRUE) \in steps
           /\ k < i \/ (k = i /\ pc = "append")
    /\ k <= Len(Results) /\ StepRecord(k, "create", TRUE) \in steps => Attempted(k, "stop")

\* the step the current configuration is about to start follows a completed one
NextStepFollows ==
    \A p \in 2..Len(Pipeline) :
        pc = Pipeline[p] => StepRecord(i, Pipeline[p - 1], TRUE) \in steps

\* the failing step's text is the Error of the result r of configuration k
ReasonRecorded(k, r, names) ==
    \A p \in 1..Len(Pipeline) :
        Pipeline[p] \in names /\ FailedStep(k, Pipeline[p]) =>
            /\ ~r.Success
            /\ r.Error \in StepErrors(Pipeline[p])

\* C23 as stated: the steps of a configuration run strictly in the order
\* create, clone, stage binary, create results directory, benchmark, collect,
\* parse, destroy, each only after the one before it succeeded; the first
\* failing step skips every later one except the destroy and its reason is
\* the Error of the ConfigResult.
C23_FirstFailureIsTheError ==
    /\ NextStepFollows
    /\ \A k \in 1..Len(configs) :
           /\ StepsInOrder(k)
           /\ k <= Len(Results) =>
                  ReasonRecorded(k, Results[k], {Pipeline[p] : p \in 1..Len(Pipeline)})

\* C23: the steps run strictly in that order, each only after the one before
\* it completed, and the first failing step skips every later one except the
\* destroy; the reason of a failing step from create to collect is the Error
\* of the ConfigResult, while a failing parse is recorded (as the benchmark's
\* exit code) only when the benchmark exited non-zero and otherwise leaves a
\* successful result with an empty Error.
C23_StepsInOrderFailureRecorded ==
    /\ NextStepFollows
    /\ \A k \in 1..Len(configs) :
           /\ StepsInOrder(k)
           /\ k <= Len(Results) =>
                  /\ ReasonRecorded(k, Results[k],
                                    {Pipeline[p] : p \in 1..(Len(Pipeline) - 1)})
                  /\ FailedStep(k, "parse") =>
                         \/ Results[k].Success /\ Results[k].Error = ""
                         \/ ~Results[k].Success /\ Results[k].Error = ExitCodeError(1)
                  /\ StepRecord(k, "parse", TRUE) \in steps =>
                         Results[k].Success /\ Results[k].Error = ""
    /\ pc \in {"stop", "append"} /\ FailedStep(i, "parse") =>
           /\ result.Success = (benchExit = 0)
           /\ result.Error = IF benchExit = 0 THEN "" ELSE ExitCodeError(benchExit)

\* chmod failed in the first configuration: mkdir and the benchmark never
\* ran, the container was destroyed, the Error names the chmod
C23_Witness ==
    /\ Len(Results) >= 1
    /\ FailedStep(1, "chmod")
    /\ ~Attempted(1, "mkresults") /\ ~Attempted(1, "bench")
    /\ Attempted(1, "stop")
    /\ Results[1].Error = "failed to make binary executable"

\* ------------------------------------------ matrix: one container at a time
\* the container of configuration k exists on the daemon
Exists(k) == containers[k] \notin {"none", "removed"}

\* teardown of configuration k has returned before configuration k + 1
\* creates its container
TeardownBeforeNextCreate ==
    \A k \in 1..(MaxConfigs - 1) :
        Attempted(k + 1, "create") /\ handle[k] =>
            Attempted(k, "stop") /\ stopCalls[k] = 1

\* C24 as stated: the container of configuration i + 1 is created only after
\* the Stop of configuration i's container has returned, so at no point do
\* two containers created by the orchestrator exist at the same time.
C24_NeverTwoContainers ==
    /\ TeardownBeforeNextCreate
    /\ Cardinality({k \in 1..MaxConfigs : Exists(k)}) <= 1

\* C24: configurations run strictly one after the other: the container of
\* configuration i + 1 is created only after the Stop of configuration i's
\* container has returned, and the only container the orchestrator works
\* with is the current one; any other container that still exists is one
\* whose removal failed, in Stop or after a failed start.
C24_OneContainerInUse ==
    /\ TeardownBeforeNextCreate
    /\ \A k \in 1..MaxConfigs :
           Exists(k) =>
               \/ k = i /\ handle[k] /\ ~Attempted(k, "stop")
                        /\ pc \in {Pipeline[p] : p \in 2..Len(Pipeline)} \cup {"stop"}
               \/ FailedStep(k, "stop")
               \/ FailedStep(k, "create") /\ containers[k] = "created" /\ ~handle[k]

\* the second configuration runs in its container after the first one's
\* container was stopped and removed
C24_Witness ==
    /\ i = 2 /\ pc = "bench"
    /\ containers[1] = "removed" /\ stopCalls[1] = 1
    /\ containers[2] = "running"

\* --------------------------------------------- matrix: Success and Error
\* the ConfigResults runSingleConfig has produced: those Run appended, and
\* the one being returned while the deferred Stop runs or Run appends it
Produced ==
    {Results[k] : k \in 1..Len(Results)} \cup
    (IF pc \in {"stop", "append"} THEN {result} ELSE {})

\* C27: every ConfigResult produced by runSingleConfig has Success = true
\* exactly when its Error is the empty string.
C27_SuccessIffNoError ==
    \A r \in Produced : r.Success <=> r.Error = ""

\* a run with one successful and one failed configuration
C27_Witness ==
    /\ Len(Results) = 2
    /\ Results[1].Success /\ Results[1].Error = ""
    /\ ~Results[2].Success /\ Results[2].Error = "benchmark failed (exit code 1)"

\* ------------------------------------------ matrix: a teardown that fails
\* C28: a failure of the teardown itself (Stop returning the error of the
\* removal) is only a warning: the step that ends the deferred Stop leaves
\* the ConfigResult as it was computed and hands it to Run's append, nothing
\* of Run's own result changes, and the matrix goes on: once Run is over
\* every configuration has its result and the one after the failed teardown
\* was started.
C28_StopFailureOnlyWarns ==
    /\ [][pc = "stop" /\ pc' # "stop" =>
              /\ result' = result
              /\ pc' = "append"
              /\ UNCHANGED <<i, Results, runRet, runErr, exitCode>>]_vars
    /\ [](\A k \in 1..MaxConfigs :
              FailedStep(k, "stop") /\ pc = "done" =>
                  /\ runRet = "result"
                  /\ Len(Results) = Len(configs)
                  /\ exitCode = MatrixExitCode(Results)
                  /\ k < Len(configs) => Attempted(k + 1, "workspace"))

\* the removal of the first container failed; its configuration is still a
\* success and the second configuration ran its benchmark
C28_Witness ==
    /\ pc = "done"
    /\ FailedStep(1, "stop") /\ containers[1] # "removed"
    /\ Len(Results) = 2
    /\ Results[1].Success /\ Results[1].Error = ""
    /\ Attempted(2, "bench")
    /\ exitCode = 0

\* ------------------------------------- matrix: the result of a failure
\* C29: every ConfigResult with Success = false has TotalRuns equal to the
\* configured number of runs, SuccessRuns = 0, SuccessRate = 0 and every
\* statistic 0: it is the initial ConfigResult with only its Error written,
\* because the statistics are written only by a parse that worked, and a
\* parse that worked always ends in Success = true.
C29_FailedResultHasNoStatistics ==
    /\ \A r \in Produced :
           ~r.Success =>
               /\ r.TotalRuns = mconfig.Runs
               /\ r.SuccessRuns = 0
               /\ r.SuccessRate = Zero
               /\ r = [NewConfigResult(r.Config) EXCEPT !.Error = r.Error]
    /\ \A k \in 1..Len(Results) :
           StepRecord(k, "parse", TRUE) \in steps => Results[k].Success

\* the benchmark ran, runs were measured, but collecting the results
\* failed: the ConfigResult carries none of them
C29_Witness ==
    /\ Len(Results) >= 1
    /\ ~Results[1].Success
    /\ FailedStep(1, "copyresults")
    /\ \E k \in 1..Len(nested[1]) : nested[1][k].Success
    /\ Results[1].TotalRuns = MatrixRuns
    /\ Results[1].Mean = Zero

\* ------------------------------------------ matrix: a container that fails
\* to start
\* C30: when CreateContainerWithDebug fails, after the container was created
\* or before, no container is left behind, no Container handle is returned
\* and no teardown is registered for it.
C30_FailedCreateLeavesNoContainer ==
    \A k \in 1..MaxConfigs :
        FailedStep(k, "create") =>
            /\ ~Exists(k)
            /\ ~handle[k]
            /\ stopCalls[k] = 0 /\ ~Attempted(k, "stop")

\* -------------------------------------------- matrix: repeated interrupts
\* everything of the run but the count of signals and the channel's buffer
runState ==
    <<configs, pc, i, result, Results, runRet, runErr, exitCode, cancelled, listener,
      containers, handle, stopCalls, stopCtxDone, steps, lateStarts, workspace,
      output, benchExit, nested>>

\* C26: cancellation is idempotent: a signal delivered after the first one
\* changes nothing of the run (at most it fills the buffer the listener has
\* stopped reading), it neither ends the process nor moves it past a
\* teardown; the buffer is read once, by the listener, and what that read
\* does, cancelling the context, is never undone or done again.
C26_SecondSignalChangesNothing ==
    /\ [][signals' # signals /\ signals >= 1 =>
              /\ UNCHANGED runState
              /\ listener = "waiting" => sigChan' = sigChan]_vars
    /\ [][sigChan' < sigChan =>
              listener = "waiting" /\ listener' = "done" /\ ~cancelled /\ cancelled']_vars
    /\ [][cancelled => cancelled' /\ listener' = "done"]_vars
    /\ [](signals >= 1 /\ listener = "waiting" => sigChan = 1)
    /\ [](listener = "done" => cancelled)

\* two signals reached a run that tore its container down and returned; the
\* second one is still in the buffer
C26_Witness ==
    /\ signals = 2 /\ sigChan = 1
    /\ listener = "done" /\ cancelled
    /\ pc = "done"
    /\ stopCalls[1] = 1 /\ stopCtxDone[1]
    /\ Len(Results) = Len(configs)

\* ----------------------------------------- docker: CopyDirFromContainer
CopyDone == ret.kind = "CopyDir"

HasSlash(h) == \E k \in 1..Len(h.Name) : h.Name[k] = "/"

\* the components of a name, as "/" separates them
Components(name) == SelectSeq(Split(name, "/"), LAMBDA c : c # <<>>)

\* dst/rest for an entry named top/rest
AtRest(h) == DstPath \o Tail(Components(h.Name))

\* dst/top/rest for an entry named top/rest
AtFullName(h) == DstPath \o Components(h.Name)

Extracted(h) == HasSlash(h) /\ h.Typeflag \in {"dir", "reg"}

\* all that is written is at dst/rest (or a directory on the way to it) for
\* an entry top/rest that is a directory or a regular file; when no error is
\* returned every such directory exists and every such file holds the
\* content of the (last) entry of that name; entries with no "/" write nothing
CopiedAtRest(es, fs) ==
    /\ \A p \in DOMAIN fs \ {DstPath} :
           \E k \in 1..Len(es) : Extracted(es[k]) /\ p \in Prefixes(AtRest(es[k]))
    /\ ret.err = "" =>
           \A k \in 1..Len(es) :
               Extracted(es[k]) =>
                   /\ AtRest(es[k]) \in DOMAIN fs
                   /\ es[k].Typeflag = "dir" => fs[AtRest(es[k])] = DirNode
                   /\ es[k].Typeflag = "reg" =>
                          LET last == CHOOSE j \in k..Len(es) :
                                          /\ es[j].Typeflag = "reg"
                                          /\ AtRest(es[j]) = AtRest(es[k])
                                          /\ \A l \in (j + 1)..Len(es) :
                                                 ~(es[l].Typeflag = "reg" /\
                                                   AtRest(es[l]) = AtRest(es[k]))
                          IN  fs[AtRest(es[k])] = FileNode(es[last].data)
    /\ (\A k \in 1..Len(es) : ~HasSlash(es[k])) => fs = HostFS

\* the first component of the names of an archive
TopOf(h) == SplitN2(h.Name)[1]

\* C25 as stated: every entry top/rest is written at dst/rest, an entry with
\* no "/" is skipped, and nothing is ever written at dst/top/...
C25_NothingUnderTopName ==
    CopyDone =>
        /\ CopiedAtRest(arg.entries, ret.fs)
        /\ \A p \in DOMAIN ret.fs, k \in 1..Len(arg.entries) :
               ~(Len(p) > Len(DstPath) /\ p[Len(DstPath) + 1] = TopOf(arg.entries[k]))

\* C25: CopyDirFromContainer strips exactly the first path component of
\* every entry: an entry top/rest is written at dst/rest, an entry with no
\* "/" is skipped, and no entry is written at its full name dst/top/rest:
\* whatever is at dst/top/... is the dst/rest of an entry top/top/..., of a
\* child of the source directory that has the directory's own name.
C25_FirstComponentStripped ==
    CopyDone =>
        /\ CopiedAtRest(arg.entries, ret.fs)
        /\ \A k \in 1..Len(arg.entries) :
               LET h == arg.entries[k]
               IN  HasSlash(h) /\ AtFullName(h) \in DOMAIN ret.fs =>
                       \E j \in 1..Len(arg.entries) :
                           /\ Extracted(arg.entries[j])
                           /\ AtFullName(h) \in Prefixes(AtRest(arg.entries[j]))
                           /\ Len(Components(arg.entries[j].Name)) > 2
                           /\ Components(arg.entries[j].Name)[2] = TopOf(h)

\* the archive of r with its directory d and the file d/a: the file is at
\* dst/d/a with its content, and there is no dst/r
C25_Witness ==
    /\ CopyDone
    /\ ret.err = ""
    /\ Len(arg.entries) = 3
    /\ arg.entries[1].Name = <<"r", "/">>
    /\ arg.entries[2].Name = <<"r", "/", "d", "/">>
    /\ arg.entries[3] = [Name |-> <<"r", "/", "d", "/", "a">>, Typeflag |-> "reg", data |-> 2]
    /\ DOMAIN ret.fs = {DstPath, DstPath \o << <<"d">> >>, DstPath \o << <<"d">>, <<"a">> >>}
    /\ ret.fs[DstPath \o << <<"d">>, <<"a">> >>] = FileNode(2)

====
